---- MODULE Spec2Model ----
(***************************************************************************)
(* The KVT engine of janusgraph: a transactional in-memory key-value       *)
(* store.  The serialized variant (KVTManagerWrapperSimple) is modelled    *)
(* from src/janusgraph-inmemory/kvt.backup/kvt_mem.h, the lock-based and   *)
(* the optimistic variant (KVTManagerWrapper with use_2pl set or cleared)  *)
(* from src/janusgraph-inmemory/kvt/kvt_mem.cpp.                           *)
(*                                                                         *)
(* Byte strings are sequences of small naturals; 0 is the NUL byte that    *)
(* make_table_key puts between the table name and the key.                 *)
(***************************************************************************)
EXTENDS Integers, Sequences, FiniteSets, TLC

\* ------------------------------------------------------------------ bounds
MaxTx == 2
MaxLimit == 1
MaxVersion == 3

NUL == 0

\* the keys "a" and "b" the calls are made with
Keys == { <<1>>, <<2>> }
\* the values "1" and "2" the calls write
Values == { <<1>>, <<2>> }
\* the table "t" the calls are made on
T1 == <<1>>
TableNames == { T1 }
TxArgs == 0..MaxTx
Limits == 1..MaxLimit

\* ------------------------------------------------------- byte-string order
\* std::string operator< : lexicographic on bytes, a proper prefix is smaller
LexLT(a, b) ==
    \E i \in 1..(Len(a) + 1) :
        /\ \A j \in 1..(i - 1) : j <= Len(b) /\ a[j] = b[j]
        /\ \/ i = Len(a) + 1 /\ Len(b) >= i
           \/ i <= Len(a) /\ i <= Len(b) /\ a[i] < b[i]

LexLE(a, b) == a = b \/ LexLT(a, b)

RECURSIVE SortedSeq(_)
\* in-order iteration of a std::map's key set
SortedSeq(S) ==
    IF S = {} THEN << >>
    ELSE LET m == CHOOSE x \in S : \A y \in S : LexLE(x, y)
         IN  <<m>> \o SortedSeq(S \ {m})

Take(s, n) == IF Len(s) <= n THEN s ELSE SubSeq(s, 1, n)

\* ------------------------------------------------------------ map helpers
EmptyMap == [x \in {} |-> << >>]
Put(m, k, v) == [x \in (DOMAIN m) \cup {k} |-> IF x = k THEN v ELSE m[x]]
Erase(m, k) == [x \in (DOMAIN m) \ {k} |-> m[x]]
\* std::map::insert(first, last): a key already present keeps its value
InsertRange(m, src) ==
    [x \in (DOMAIN m) \cup (DOMAIN src) |-> IF x \in DOMAIN m THEN m[x] ELSE src[x]]

\* ------------------------------------------------------------ error codes
\* the bool + message API of kvt.backup/kvt_mem.h, named by the KVTError
\* taxonomy entry that the message text states
SUCCESS == "SUCCESS"
TRANSACTION_NOT_FOUND == "TRANSACTION_NOT_FOUND"
TRANSACTION_ALREADY_RUNNING == "TRANSACTION_ALREADY_RUNNING"
KEY_NOT_FOUND == "KEY_NOT_FOUND"
KEY_IS_DELETED == "KEY_IS_DELETED"
KEY_IS_LOCKED == "KEY_IS_LOCKED"
TABLE_NOT_FOUND == "TABLE_NOT_FOUND"
TABLE_ALREADY_EXISTS == "TABLE_ALREADY_EXISTS"
INVALID_PARTITION_METHOD == "INVALID_PARTITION_METHOD"
TRANSACTION_HAS_STALE_DATA == "TRANSACTION_HAS_STALE_DATA"
UNKNOWN_ERROR == "UNKNOWN_ERROR"
BATCH_NOT_FULLY_SUCCESS == "BATCH_NOT_FULLY_SUCCESS"
ONE_SHOT_WRITE_NOT_ALLOWED == "ONE_SHOT_WRITE_NOT_ALLOWED"
ONE_SHOT_DELETE_NOT_ALLOWED == "ONE_SHOT_DELETE_NOT_ALLOWED"
UNDEFINED_BEHAVIOUR == "UNDEFINED_BEHAVIOUR"

NoVal == << >>

VARIABLES
    table_data,      \* KVTManagerWrapperSimple::table_data  : table_key -> value
    next_tx_id,
    current_tx_id,   \* 0 when no transaction is live
    write_set,       \* table_key -> buffered value
    delete_set,      \* set of table_key
    ret,             \* the last engine call and what it returned
    hist,            \* history: per table_key the last set/del of the latest transaction
    shadow,          \* history: the table as the calls outside the live transaction alone make it
    live,            \* history: the ids start_transaction returned and no commit/rollback has ended
    table_to_id,     \* KVTManagerWrapperSimple::table_to_id : table_name -> id
    next_table_id,
    mgr,             \* g_kvt_manager, the KVTManagerWrapper object of kvt_mem.cpp
    trace,           \* history of the calls made on mgr
    global_mutex,    \* KVTManagerWrapper::global_mutex : 0 when free, else the thread holding it
    pc,              \* per calling thread: where it is in its engine call
    storeA,          \* the engine table of the run with g_use_composite_key_method = false
    storeB,          \* the engine table of the run with g_use_composite_key_method = true
    aret,            \* the last adapter call and what it returned in each run
    reference,       \* history: key -> column -> value, as the successful calls define it
    g_use_composite_key_method,  \* janusgraph::g_use_composite_key_method
    local,           \* per calling thread: the adapter call it is in and what it has read
    kcv,             \* InMemoryKeyColumnValueStore::kcv : key -> the data of its column store
    mret             \* the last call on the in-memory store and what it returned

vars == <<table_data, next_tx_id, current_tx_id,
          write_set, delete_set, ret, hist, shadow, live,
          table_to_id, next_table_id, mgr, trace,
          global_mutex, pc, storeA, storeB, aret, reference,
          g_use_composite_key_method, local, kcv, mret>>

memdb_vars == <<kcv, mret>>

simple_vars == <<table_data, next_tx_id, current_tx_id,
                 write_set, delete_set, hist, shadow, live,
                 table_to_id, next_table_id, memdb_vars>>

thread_vars == <<global_mutex, pc>>
caller_vars == <<g_use_composite_key_method, local>>
adapter_vars == <<storeA, storeB, aret, reference, caller_vars>>

\* table_name + '\0' + key
make_table_key(table_name, key) == table_name \o <<NUL>> \o key

TableKeys == { make_table_key(tn, k) : tn \in TableNames, k \in Keys }

Ret(op, tx, key, val, err, out, res) ==
    [op |-> op, tx |-> tx, key |-> key, val |-> val, err |-> err, out |-> out, res |-> res]

\* the state of a KVTManagerWrapperSimple object
SimpleState ==
    [table_data |-> table_data, next_tx_id |-> next_tx_id,
     current_tx_id |-> current_tx_id, write_set |-> write_set,
     delete_set |-> delete_set,
     table_to_id |-> table_to_id, next_table_id |-> next_table_id]

SimpleInit ==
    [table_data |-> EmptyMap, next_tx_id |-> 1, current_tx_id |-> 0,
     write_set |-> EmptyMap, delete_set |-> {},
     table_to_id |-> EmptyMap, next_table_id |-> 1]

\* ------------------------------------------------- KVTManagerWrapperSimple
\* every handler maps (state, arguments) to the new state s and the return r

\* start_transaction without the current_tx_id check
\* create_table that does not advance next_table_id
Simple_create_table_reuses_id(s, table_name, partition_method) ==
    LET R(t, err, id) ==
            [s |-> t, r |-> Ret("create", 0, table_name, <<partition_method>>, err, id, << >>)]
    IN  IF table_name \in DOMAIN s.table_to_id THEN R(s, TABLE_ALREADY_EXISTS, 0)
        ELSE R([s EXCEPT !.table_to_id = Put(s.table_to_id, table_name, s.next_table_id)],
               SUCCESS, s.next_table_id)

\* partition_method is not looked at
Simple_create_table(s, table_name, partition_method) ==
    LET R(t, err, id) ==
            [s |-> t, r |-> Ret("create", 0, table_name, <<partition_method>>, err, id, << >>)]
    IN  IF table_name \in DOMAIN s.table_to_id THEN R(s, TABLE_ALREADY_EXISTS, 0)
        ELSE R([s EXCEPT !.table_to_id = Put(s.table_to_id, table_name, s.next_table_id),
                         !.next_table_id = s.next_table_id + 1],
               SUCCESS, s.next_table_id)

Simple_start_transaction_unguarded(s) ==
    [s |-> [s EXCEPT !.current_tx_id = s.next_tx_id,
                     !.next_tx_id = s.next_tx_id + 1],
     r |-> Ret("start", 0, NoVal, NoVal, SUCCESS, s.next_tx_id, << >>)]

Simple_start_transaction(s) ==
    IF s.current_tx_id # 0
    THEN [s |-> s,
          r |-> Ret("start", 0, NoVal, NoVal, TRANSACTION_ALREADY_RUNNING, 0, << >>)]
    ELSE [s |-> [s EXCEPT !.current_tx_id = s.next_tx_id,
                          !.next_tx_id = s.next_tx_id + 1],
          r |-> Ret("start", 0, NoVal, NoVal, SUCCESS, s.next_tx_id, << >>)]

Simple_commit_transaction(s, tx_id) ==
    IF s.current_tx_id # tx_id
    THEN [s |-> s,
          r |-> Ret("commit", tx_id, NoVal, NoVal, TRANSACTION_NOT_FOUND, 0, << >>)]
    ELSE [s |-> [s EXCEPT
                   !.table_data =
                       LET inserted == InsertRange(s.table_data, s.write_set)
                       IN  [x \in (DOMAIN inserted) \ s.delete_set |-> inserted[x]],
                   !.write_set = EmptyMap,
                   !.delete_set = {},
                   !.current_tx_id = 0],
          r |-> Ret("commit", tx_id, NoVal, NoVal, SUCCESS, 0, << >>)]

Simple_rollback_transaction(s, tx_id) ==
    IF s.current_tx_id # tx_id
    THEN [s |-> s,
          r |-> Ret("rollback", tx_id, NoVal, NoVal, TRANSACTION_NOT_FOUND, 0, << >>)]
    ELSE [s |-> [s EXCEPT !.write_set = EmptyMap,
                          !.delete_set = {},
                          !.current_tx_id = 0],
          r |-> Ret("rollback", tx_id, NoVal, NoVal, SUCCESS, 0, << >>)]

\* get without the write_set lookup
Simple_get_skips_write_set(s, tx_id, table_name, key) ==
    LET table_key == make_table_key(table_name, key)
        R(val, err) == [s |-> s, r |-> Ret("get", tx_id, key, val, err, 0, << >>)]
    IN  IF tx_id # 0 /\ s.current_tx_id # tx_id THEN R(NoVal, TRANSACTION_NOT_FOUND)
        ELSE IF tx_id # 0 /\ table_key \in s.delete_set
             THEN R(NoVal, KEY_NOT_FOUND)
        ELSE IF table_key \notin DOMAIN s.table_data
             THEN R(NoVal, KEY_NOT_FOUND)
        ELSE R(s.table_data[table_key], SUCCESS)

Simple_get(s, tx_id, table_name, key) ==
    LET table_key == make_table_key(table_name, key)
        R(val, err) == [s |-> s, r |-> Ret("get", tx_id, key, val, err, 0, << >>)]
    IN  IF tx_id # 0 /\ s.current_tx_id # tx_id THEN R(NoVal, TRANSACTION_NOT_FOUND)
        ELSE IF tx_id # 0 /\ table_key \in DOMAIN s.write_set
             THEN R(s.write_set[table_key], SUCCESS)
        ELSE IF tx_id # 0 /\ table_key \in s.delete_set
             THEN R(NoVal, KEY_NOT_FOUND)
        ELSE IF table_key \notin DOMAIN s.table_data
             THEN R(NoVal, KEY_NOT_FOUND)
        ELSE R(s.table_data[table_key], SUCCESS)

\* set without the delete_set.erase
Simple_set_keeps_delete_set(s, tx_id, table_name, key, value) ==
    LET table_key == make_table_key(table_name, key)
        R(t, err) == [s |-> t, r |-> Ret("set", tx_id, key, value, err, 0, << >>)]
    IN  IF tx_id # 0 /\ s.current_tx_id # tx_id THEN R(s, TRANSACTION_NOT_FOUND)
        ELSE IF tx_id = 0
             THEN R([s EXCEPT !.table_data = Put(s.table_data, table_key, value)], SUCCESS)
        ELSE R([s EXCEPT !.write_set = Put(s.write_set, table_key, value)], SUCCESS)

Simple_set(s, tx_id, table_name, key, value) ==
    LET table_key == make_table_key(table_name, key)
        R(t, err) == [s |-> t, r |-> Ret("set", tx_id, key, value, err, 0, << >>)]
    IN  IF tx_id # 0 /\ s.current_tx_id # tx_id THEN R(s, TRANSACTION_NOT_FOUND)
        ELSE IF tx_id = 0
             THEN R([s EXCEPT !.table_data = Put(s.table_data, table_key, value)], SUCCESS)
        ELSE R([s EXCEPT !.delete_set = s.delete_set \ {table_key},
                         !.write_set = Put(s.write_set, table_key, value)], SUCCESS)

Simple_del(s, tx_id, table_name, key) ==
    LET table_key == make_table_key(table_name, key)
        R(t, err) == [s |-> t, r |-> Ret("del", tx_id, key, NoVal, err, 0, << >>)]
    IN  IF tx_id # 0 /\ s.current_tx_id # tx_id THEN R(s, TRANSACTION_NOT_FOUND)
        ELSE IF tx_id = 0
             THEN R([s EXCEPT !.table_data = Erase(s.table_data, table_key)], SUCCESS)
        ELSE R([s EXCEPT !.delete_set = s.delete_set \cup {table_key},
                         !.write_set = Erase(s.write_set, table_key)], SUCCESS)

\* the keys between lower_bound(start) and upper_bound(end)
ScanRange(s, table_name, key_start, key_end) ==
    { k \in DOMAIN s.table_data :
        /\ LexLE(make_table_key(table_name, key_start), k)
        /\ LexLE(k, make_table_key(table_name, key_end)) }

\* lower_bound(start) lies behind upper_bound(end): the loop never meets
\* end_itr; it stops only when the limit is reached, else it runs off the
\* end of the map
ScanOverruns(s, table_name, key_start, key_end) ==
    \E k \in DOMAIN s.table_data :
        /\ LexLT(make_table_key(table_name, key_end), k)
        /\ LexLT(k, make_table_key(table_name, key_start))

\* r.ub: the loop dereferenced table_data.end()
Simple_scan(s, tx_id, table_name, key_start, key_end, num_item_limit) ==
    LET overrun == ScanOverruns(s, table_name, key_start, key_end)
        walked == IF overrun
                  THEN { k \in DOMAIN s.table_data :
                           LexLE(make_table_key(table_name, key_start), k) }
                  ELSE ScanRange(s, table_name, key_start, key_end)
        ordered == SortedSeq({ k \in walked : k \notin s.delete_set })
        emitted == [i \in 1..Len(ordered) |->
                      <<ordered[i],
                        IF ordered[i] \in DOMAIN s.write_set
                        THEN s.write_set[ordered[i]]
                        ELSE s.table_data[ordered[i]]>>]
        R(err, res, ub) ==
            [s |-> s, ub |-> ub,
             r |-> Ret("scan", tx_id, key_start, key_end, err, num_item_limit, res)]
    IN  IF tx_id = 0 /\ s.current_tx_id # tx_id THEN R(TRANSACTION_NOT_FOUND, << >>, FALSE)
        ELSE R(SUCCESS, Take(emitted, num_item_limit),
               overrun /\ Len(emitted) < num_item_limit)

\* ----------------------------- KVTManagerWrapperInterface::batch_execute
OP_UNKNOWN == "OP_UNKNOWN"
OP_GET == "OP_GET"
OP_SET == "OP_SET"
OP_DEL == "OP_DEL"

KVTOp(op, table_name, key, value) ==
    [op |-> op, table_name |-> table_name, key |-> key, value |-> value]

KVTOpResult(error, value) == [error |-> error, value |-> value]

\* the switch of the loop body: the engine call op makes, its state and return
ExecuteOp(s, tx_id, op) ==
    CASE op.op = OP_GET -> Simple_get(s, tx_id, op.table_name, op.key)
      [] op.op = OP_SET -> Simple_set(s, tx_id, op.table_name, op.key, op.value)
      [] op.op = OP_DEL -> Simple_del(s, tx_id, op.table_name, op.key)
      [] OTHER -> [s |-> s, r |-> Ret("unknown", tx_id, op.key, NoVal, UNKNOWN_ERROR, 0, << >>)]

\* result.value is written by get alone
ResultOf(op, r) == KVTOpResult(r.err, IF op.op = OP_GET THEN r.val ELSE NoVal)

RECURSIVE batch_loop(_, _, _, _, _, _)
batch_loop(s, tx_id, batch_ops, i, batch_results, all_success) ==
    IF i > Len(batch_ops)
    THEN [s |-> s,
          r |-> Ret("batch", tx_id, batch_ops, NoVal,
                    IF all_success THEN SUCCESS ELSE BATCH_NOT_FULLY_SUCCESS,
                    0, batch_results)]
    ELSE LET o == ExecuteOp(s, tx_id, batch_ops[i])
         IN  batch_loop(o.s, tx_id, batch_ops, i + 1,
                        Append(batch_results, ResultOf(batch_ops[i], o.r)),
                        all_success /\ o.r.err = SUCCESS)

\* a loop that breaks at the first op that fails
RECURSIVE batch_loop_breaks(_, _, _, _, _, _)
batch_loop_breaks(s, tx_id, batch_ops, i, batch_results, all_success) ==
    IF i > Len(batch_ops) \/ ~all_success
    THEN [s |-> s,
          r |-> Ret("batch", tx_id, batch_ops, NoVal,
                    IF all_success THEN SUCCESS ELSE BATCH_NOT_FULLY_SUCCESS,
                    0, batch_results)]
    ELSE LET o == ExecuteOp(s, tx_id, batch_ops[i])
         IN  batch_loop_breaks(o.s, tx_id, batch_ops, i + 1,
                               Append(batch_results, ResultOf(batch_ops[i], o.r)),
                               all_success /\ o.r.err = SUCCESS)

batch_execute_breaks(s, tx_id, batch_ops) ==
    batch_loop_breaks(s, tx_id, batch_ops, 1, << >>, TRUE)

batch_execute(s, tx_id, batch_ops) ==
    batch_loop(s, tx_id, batch_ops, 1, << >>, TRUE)

\* ------------------------------------- KVTManagerWrapper, use_2pl set or not
\* the bool + message API of kvt/kvt_mem.cpp; a message is named by the error
\* code that states it
NOT_RANGE_PARTITIONED == "NOT_RANGE_PARTITIONED"

\* what is kept of a call on mgr: the operation, the tx_id passed, the outcome
KRet(op, tx, err) == Ret(op, tx, NoVal, NoVal, err, 0, << >>)

Value(data, is_locked, version) ==
    [data |-> data, is_locked |-> is_locked, version |-> version]

NewTransaction == [read_set |-> EmptyMap, write_set |-> EmptyMap, delete_set |-> {}]

MgrInit(use_2pl) ==
    [tables |-> EmptyMap, transactions |-> EmptyMap,
     next_table_id |-> 1, next_tx_id |-> 1, use_2pl |-> use_2pl]

\* table_key.find('\0')
separator_pos(table_key) ==
    CHOOSE i \in 1..Len(table_key) :
        table_key[i] = NUL /\ \A j \in 1..(i - 1) : table_key[j] # NUL

SplitName(table_key) == SubSeq(table_key, 1, separator_pos(table_key) - 1)
SplitKey(table_key) == SubSeq(table_key, separator_pos(table_key) + 1, Len(table_key))

\* the table_keys of a set that name a key of table table_name
KeysOf(table_keys, table_name) ==
    { SplitKey(tk) : tk \in { x \in table_keys : SplitName(x) = table_name } }

\* create_table without the partition_method test
KVT_create_table_any_method(m, table_name, partition_method) ==
    LET R(t, err, id) ==
            [s |-> t, r |-> Ret("create", 0, table_name, <<partition_method>>, err, id, << >>)]
    IN  IF table_name \in DOMAIN m.tables THEN R(m, TABLE_ALREADY_EXISTS, 0)
        ELSE R([m EXCEPT !.tables = Put(m.tables, table_name,
                                        [id |-> m.next_table_id,
                                         partition_method |-> partition_method,
                                         data |-> EmptyMap]),
                         !.next_table_id = m.next_table_id + 1],
               SUCCESS, m.next_table_id)

KVT_create_table(m, table_name, partition_method) ==
    LET R(t, err, id) ==
            [s |-> t, r |-> Ret("create", 0, table_name, <<partition_method>>, err, id, << >>)]
    IN  IF table_name \in DOMAIN m.tables THEN R(m, TABLE_ALREADY_EXISTS, 0)
        ELSE IF partition_method \notin {"hash", "range"}
             THEN R(m, INVALID_PARTITION_METHOD, 0)
        ELSE R([m EXCEPT !.tables = Put(m.tables, table_name,
                                        [id |-> m.next_table_id,
                                         partition_method |-> partition_method,
                                         data |-> EmptyMap]),
                         !.next_table_id = m.next_table_id + 1],
               SUCCESS, m.next_table_id)

KVT_start_transaction(m) ==
    [s |-> [m EXCEPT !.transactions = Put(m.transactions, m.next_tx_id, NewTransaction),
                     !.next_tx_id = m.next_tx_id + 1],
     r |-> [KRet("start", 0, SUCCESS) EXCEPT !.out = m.next_tx_id]]

\* clears is_locked on the entry of every key of the read_set
release_locks_2pl(tables, tx) ==
    [tn \in DOMAIN tables |->
        [tables[tn] EXCEPT !.data =
            [k \in DOMAIN tables[tn].data |->
                IF make_table_key(tn, k) \in DOMAIN tx.read_set
                THEN [tables[tn].data[k] EXCEPT !.is_locked = FALSE]
                ELSE tables[tn].data[k]]]]

\* a read_set entry of an existing table must carry the entry's current
\* version, 0 standing for an absent entry
validate_versions_occ(m, tx) ==
    \A tk \in DOMAIN tx.read_set :
        SplitName(tk) \in DOMAIN m.tables =>
            LET data == m.tables[SplitName(tk)].data
                current_version == IF SplitKey(tk) \in DOMAIN data
                                   THEN data[SplitKey(tk)].version ELSE 0
            IN  tx.read_set[tk].version = current_version

KVT_get(m, tx_id, table_name, key) ==
    LET table_key == make_table_key(table_name, key)
        R(t, val, err) == [s |-> t, val |-> val, r |-> KRet("get", tx_id, err)]
    IN  IF tx_id = 0
        THEN IF table_name \notin DOMAIN m.tables THEN R(m, NoVal, TABLE_NOT_FOUND)
             ELSE IF key \notin DOMAIN m.tables[table_name].data
                  THEN R(m, NoVal, KEY_NOT_FOUND)
             ELSE R(m, m.tables[table_name].data[key].data, SUCCESS)
        ELSE IF tx_id \notin DOMAIN m.transactions THEN R(m, NoVal, TRANSACTION_NOT_FOUND)
        ELSE LET tx == m.transactions[tx_id]
             IN  IF table_key \in DOMAIN tx.write_set
                 THEN R(m, tx.write_set[table_key].data, SUCCESS)
                 ELSE IF table_key \in DOMAIN tx.read_set
                      THEN R(m, tx.read_set[table_key].data, SUCCESS)
                 ELSE IF table_name \notin DOMAIN m.tables
                      THEN R(m, NoVal, TABLE_NOT_FOUND)
                 ELSE IF key \notin DOMAIN m.tables[table_name].data
                      THEN R(m, NoVal, KEY_NOT_FOUND)
                 ELSE LET it == m.tables[table_name].data[key]
                      IN  IF m.use_2pl /\ it.is_locked
                          THEN R(m, NoVal, KEY_IS_LOCKED)
                          ELSE R([m EXCEPT
                                    !.tables[table_name].data[key].is_locked = TRUE,
                                    !.transactions[tx_id].read_set =
                                        Put(tx.read_set, table_key,
                                            Value(it.data, m.use_2pl, 0))],
                                 it.data, SUCCESS)

KVT_set(m, tx_id, table_name, key, value_str) ==
    LET table_key == make_table_key(table_name, key)
        R(t, err) == [s |-> t, r |-> KRet("set", tx_id, err)]
    IN  IF tx_id = 0
        THEN IF table_name \notin DOMAIN m.tables THEN R(m, TABLE_NOT_FOUND)
             ELSE LET data == m.tables[table_name].data
                      found == key \in DOMAIN data
                  IN  IF m.use_2pl /\ found /\ data[key].is_locked
                      THEN R(m, KEY_IS_LOCKED)
                      ELSE R([m EXCEPT !.tables[table_name].data =
                                 Put(data, key,
                                     IF m.use_2pl THEN Value(value_str, FALSE, 0)
                                     ELSE Value(value_str, FALSE,
                                                IF found THEN data[key].version + 1
                                                ELSE 1))],
                             SUCCESS)
        ELSE IF tx_id \notin DOMAIN m.transactions THEN R(m, TRANSACTION_NOT_FOUND)
        ELSE LET tx == m.transactions[tx_id]
             IN  IF table_key \in DOMAIN tx.write_set
                 THEN R([m EXCEPT !.transactions[tx_id].write_set[table_key].data = value_str],
                        SUCCESS)
                 ELSE IF table_key \notin DOMAIN tx.read_set
                      THEN R([m EXCEPT !.transactions[tx_id].write_set =
                                 Put(tx.write_set, table_key, Value(value_str, FALSE, 0))],
                             SUCCESS)
                 ELSE R([m EXCEPT
                           !.transactions[tx_id].write_set =
                               Put(tx.write_set, table_key,
                                   Value(value_str, tx.read_set[table_key].is_locked,
                                         tx.read_set[table_key].version)),
                           !.transactions[tx_id].read_set = Erase(tx.read_set, table_key)],
                        SUCCESS)

\* the entries the loop met before entry j of visited, with is_locked cleared
Unlocked(data, visited, j) ==
    [k \in DOMAIN data |->
        IF \E i \in 1..(j - 1) : visited[i] = k
        THEN [data[k] EXCEPT !.is_locked = FALSE] ELSE data[k]]

\* a scan whose clean-up also clears the entry it stopped at
KVT_scan_unlocks_all(m, tx_id, table_name, key_start, key_end, num_item_limit) ==
    LET R(t, err, res, ub) ==
            [s |-> t, ub |-> ub, res |-> res, r |-> KRet("scan", tx_id, err)]
    IN  IF table_name \notin DOMAIN m.tables THEN R(m, TABLE_NOT_FOUND, << >>, FALSE)
        ELSE IF m.tables[table_name].partition_method # "range"
             THEN R(m, NOT_RANGE_PARTITIONED, << >>, FALSE)
        ELSE LET data == m.tables[table_name].data
                 overrun == \E k \in DOMAIN data : LexLT(key_end, k) /\ LexLT(k, key_start)
                 walked == IF overrun
                           THEN { k \in DOMAIN data : LexLE(key_start, k) }
                           ELSE { k \in DOMAIN data : LexLE(key_start, k) /\ LexLE(k, key_end) }
                 visited == Take(SortedSeq(walked), num_item_limit)
                 emitted == [i \in 1..Len(visited) |-> <<visited[i], data[visited[i]].data>>]
                 ub == overrun /\ Len(visited) < num_item_limit
                 locked == { i \in 1..Len(visited) : data[visited[i]].is_locked }
             IN  IF tx_id = 0 THEN R(m, SUCCESS, emitted, ub)
                 ELSE IF tx_id \notin DOMAIN m.transactions
                      THEN R(m, TRANSACTION_NOT_FOUND, << >>, FALSE)
                 ELSE IF m.use_2pl /\ locked # {}
                      THEN LET j == CHOOSE i \in locked : \A l \in locked : i <= l
                           IN  R([m EXCEPT !.tables[table_name].data =
                                     Unlocked(data, visited, j + 1)],
                                 KEY_IS_LOCKED, << >>, FALSE)
                 ELSE R(m, SUCCESS, emitted, ub)

\* r.ub: the loop dereferenced data.end()
KVT_scan(m, tx_id, table_name, key_start, key_end, num_item_limit) ==
    LET R(t, err, res, ub) ==
            [s |-> t, ub |-> ub, res |-> res, r |-> KRet("scan", tx_id, err)]
    IN  IF table_name \notin DOMAIN m.tables THEN R(m, TABLE_NOT_FOUND, << >>, FALSE)
        ELSE IF m.tables[table_name].partition_method # "range"
             THEN R(m, NOT_RANGE_PARTITIONED, << >>, FALSE)
        ELSE LET data == m.tables[table_name].data
                 overrun == \E k \in DOMAIN data : LexLT(key_end, k) /\ LexLT(k, key_start)
                 walked == IF overrun
                           THEN { k \in DOMAIN data : LexLE(key_start, k) }
                           ELSE { k \in DOMAIN data : LexLE(key_start, k) /\ LexLE(k, key_end) }
                 visited == Take(SortedSeq(walked), num_item_limit)
                 emitted == [i \in 1..Len(visited) |-> <<visited[i], data[visited[i]].data>>]
                 ub == overrun /\ Len(visited) < num_item_limit
                 locked == { i \in 1..Len(visited) : data[visited[i]].is_locked }
             IN  IF tx_id = 0 THEN R(m, SUCCESS, emitted, ub)
                 ELSE IF tx_id \notin DOMAIN m.transactions
                      THEN R(m, TRANSACTION_NOT_FOUND, << >>, FALSE)
                 ELSE IF m.use_2pl /\ locked # {}
                      THEN LET j == CHOOSE i \in locked : \A l \in locked : i <= l
                           IN  R([m EXCEPT !.tables[table_name].data =
                                     Unlocked(data, visited, j)],
                                 KEY_IS_LOCKED, << >>, FALSE)
                 ELSE R(m, SUCCESS, emitted, ub)

\* the tables after the write_set of tx is installed
InstallWrites(m, tx) ==
    [tn \in DOMAIN m.tables |->
        [m.tables[tn] EXCEPT !.data =
            LET old == m.tables[tn].data
                written == KeysOf(DOMAIN tx.write_set, tn)
            IN  [k \in (DOMAIN old) \cup written |->
                    IF k \in written
                    THEN LET w == tx.write_set[make_table_key(tn, k)]
                         IN  IF m.use_2pl THEN Value(w.data, FALSE, 0)
                             ELSE Value(w.data, FALSE,
                                        IF k \in DOMAIN old THEN old[k].version + 1 ELSE 1)
                    ELSE old[k]]]]

KVT_commit_transaction(m, tx_id) ==
    LET R(t, err) == [s |-> t, r |-> KRet("commit", tx_id, err)]
    IN  IF tx_id \notin DOMAIN m.transactions THEN R(m, TRANSACTION_NOT_FOUND)
        ELSE LET tx == m.transactions[tx_id]
             IN  IF m.use_2pl
                 THEN R([m EXCEPT !.tables = release_locks_2pl(InstallWrites(m, tx), tx),
                                  !.transactions = Erase(m.transactions, tx_id)],
                        SUCCESS)
                 ELSE IF ~validate_versions_occ(m, tx)
                      THEN R(m, TRANSACTION_HAS_STALE_DATA)
                 ELSE R([m EXCEPT !.tables = InstallWrites(m, tx),
                                  !.transactions = Erase(m.transactions, tx_id)],
                        SUCCESS)

KVT_rollback_transaction(m, tx_id) ==
    LET R(t, err) == [s |-> t, r |-> KRet("rollback", tx_id, err)]
    IN  IF tx_id \notin DOMAIN m.transactions THEN R(m, TRANSACTION_NOT_FOUND)
        ELSE LET tx == m.transactions[tx_id]
             IN  R([m EXCEPT !.tables = IF m.use_2pl
                                        THEN release_locks_2pl(m.tables, tx)
                                        ELSE m.tables,
                             !.transactions = Erase(m.transactions, tx_id)],
                   SUCCESS)

\* ---------------------------------------------------- history of mgr's calls
\* obs     : per live transaction, the value its first get of a key it had not
\*           written returned
\* lastw   : per live transaction, the value of its last set of a key
\* dirty   : per live transaction, the keys it got and another transaction
\*           committed a write of afterwards
\* snap    : the tables as they were when the only live transaction began,
\*           while nothing but that transaction's calls happened since
NoSnap == [ok |-> FALSE, tables |-> EmptyMap]

TraceInit ==
    [obs |-> EmptyMap, lastw |-> EmptyMap, dirty |-> EmptyMap, snap |-> NoSnap]

SnapKept == IF DOMAIN mgr.transactions = {} THEN NoSnap ELSE trace.snap

VersionsInBound(m) ==
    \A tn \in DOMAIN m.tables : \A k \in DOMAIN m.tables[tn].data :
        m.tables[tn].data[k].version <= MaxVersion

\* ------------------------------------------------------------- the actions
None == <<"none">>
HistInit == [k \in TableKeys |-> None]

\* the threads that call the engine
Threads == { 1, 2 }

InitThreads ==
    /\ global_mutex = 0
    /\ pc = [t \in Threads |-> "idle"]

NoResult == [res |-> "none", value |-> << >>, columns |-> << >>]
ARetInit == [op |-> "init", key |-> << >>, column |-> << >>, value |-> << >>,
             columns |-> << >>, A |-> NoResult, B |-> NoResult]

\* InMemoryKeyColumnValueStore as constructed: no key, no call made
MRetInit == [op |-> "init"]

InitMemdb ==
    /\ kcv = EmptyMap
    /\ mret = MRetInit

\* a thread that is in no adapter call
NoCall == [op |-> "none"]

InitStores ==
    /\ storeA = EmptyMap
    /\ storeB = EmptyMap
    /\ aret = ARetInit
    /\ reference = EmptyMap
    /\ local = [t \in Threads |-> NoCall]

InitAdapter ==
    /\ InitStores
    /\ g_use_composite_key_method = FALSE

\* the object takes the state s
AssignSimple(s) ==
    /\ table_data' = s.table_data
    /\ next_tx_id' = s.next_tx_id
    /\ current_tx_id' = s.current_tx_id
    /\ write_set' = s.write_set
    /\ delete_set' = s.delete_set
    /\ table_to_id' = s.table_to_id
    /\ next_table_id' = s.next_table_id

SetSimple(s) ==
    /\ AssignSimple(s)
    /\ UNCHANGED <<mgr, trace, thread_vars, adapter_vars, memdb_vars>>

InitEngine ==
    /\ table_data = SimpleInit.table_data
    /\ next_tx_id = SimpleInit.next_tx_id
    /\ current_tx_id = SimpleInit.current_tx_id
    /\ write_set = SimpleInit.write_set
    /\ delete_set = SimpleInit.delete_set
    /\ table_to_id = SimpleInit.table_to_id
    /\ next_table_id = SimpleInit.next_table_id
    /\ ret = Ret("init", 0, NoVal, NoVal, SUCCESS, 0, << >>)
    /\ hist = HistInit
    /\ shadow = EmptyMap
    /\ live = {}
    /\ mgr = MgrInit(TRUE)
    /\ trace = TraceInit
    /\ InitThreads
    /\ InitMemdb

InitSimple ==
    /\ InitEngine
    /\ InitAdapter

StartTransaction ==
    /\ next_tx_id <= MaxTx
    /\ LET o == Simple_start_transaction(SimpleState)
       IN  /\ SetSimple(o.s) /\ ret' = o.r
           /\ hist' = IF o.r.err = SUCCESS THEN HistInit ELSE hist
           /\ live' = IF o.r.err = SUCCESS THEN live \cup {o.r.out} ELSE live
           /\ UNCHANGED shadow

CommitTransaction ==
    \E tx \in TxArgs :
        LET o == Simple_commit_transaction(SimpleState, tx)
        IN  /\ SetSimple(o.s) /\ ret' = o.r
            /\ shadow' = IF o.r.err = SUCCESS THEN o.s.table_data ELSE shadow
            /\ live' = IF o.r.err = SUCCESS THEN live \ {tx} ELSE live
            /\ UNCHANGED hist

RollbackTransaction ==
    \E tx \in TxArgs :
        LET o == Simple_rollback_transaction(SimpleState, tx)
        IN  /\ SetSimple(o.s) /\ ret' = o.r
            /\ live' = IF o.r.err = SUCCESS THEN live \ {tx} ELSE live
            /\ UNCHANGED <<hist, shadow>>

Get ==
    \E tx \in TxArgs, tn \in TableNames, k \in Keys :
        LET o == Simple_get(SimpleState, tx, tn, k)
        IN  SetSimple(o.s) /\ ret' = o.r /\ UNCHANGED <<hist, shadow, live>>

Set ==
    \E tx \in TxArgs, tn \in TableNames, k \in Keys, v \in Values :
        LET o == Simple_set(SimpleState, tx, tn, k, v)
            tk == make_table_key(tn, k)
        IN  /\ SetSimple(o.s) /\ ret' = o.r
            /\ hist' = IF o.r.err = SUCCESS /\ tx # 0
                       THEN [hist EXCEPT ![tk] = <<"set", v>>] ELSE hist
            /\ shadow' = IF o.r.err = SUCCESS /\ tx = 0
                         THEN Put(shadow, tk, v) ELSE shadow
            /\ UNCHANGED live

Del ==
    \E tx \in TxArgs, tn \in TableNames, k \in Keys :
        LET o == Simple_del(SimpleState, tx, tn, k)
            tk == make_table_key(tn, k)
        IN  /\ SetSimple(o.s) /\ ret' = o.r
            /\ hist' = IF o.r.err = SUCCESS /\ tx # 0
                       THEN [hist EXCEPT ![tk] = <<"del">>] ELSE hist
            /\ shadow' = IF o.r.err = SUCCESS /\ tx = 0
                         THEN Erase(shadow, tk) ELSE shadow
            /\ UNCHANGED live

Scan ==
    \E tx \in TxArgs, tn \in TableNames, ks \in Keys, ke \in Keys, lim \in Limits :
        LET o == Simple_scan(SimpleState, tx, tn, ks, ke, lim)
        IN  /\ SetSimple(o.s) /\ UNCHANGED <<hist, shadow, live>>
            /\ IF o.ub
               THEN ret' \in {o.r, [o.r EXCEPT !.err = UNDEFINED_BEHAVIOUR, !.res = << >>]}
               ELSE ret' = o.r

NextSimple ==
    \/ StartTransaction
    \/ CommitTransaction
    \/ RollbackTransaction
    \/ Get
    \/ Set
    \/ Del
    \/ Scan

\* the serialized engine, KVTManagerWrapperSimple
SpecSimple == InitSimple /\ [][NextSimple]_vars

\* ------------------------------------------- the actions on KVTManagerWrapper
PartitionMethods == { "hash", "range", "list" }
\* the key "a" the calls on mgr are made with
KvtKeys == { <<1>> }

InitKVT(use_2pl) ==
    /\ table_data = SimpleInit.table_data
    /\ next_tx_id = SimpleInit.next_tx_id
    /\ current_tx_id = SimpleInit.current_tx_id
    /\ write_set = SimpleInit.write_set
    /\ delete_set = SimpleInit.delete_set
    /\ table_to_id = SimpleInit.table_to_id
    /\ next_table_id = SimpleInit.next_table_id
    /\ ret = Ret("init", 0, NoVal, NoVal, SUCCESS, 0, << >>)
    /\ hist = HistInit
    /\ shadow = EmptyMap
    /\ live = {}
    /\ mgr = MgrInit(use_2pl)
    /\ trace = TraceInit
    /\ InitThreads
    /\ InitMemdb
    /\ InitAdapter

KvtCreateTableOf(names, methods) ==
    \E tn \in names, pm \in methods :
        LET o == KVT_create_table(mgr, tn, pm)
        IN  /\ mgr' = o.s /\ ret' = o.r
            /\ trace' = [trace EXCEPT !.snap = IF o.r.err = SUCCESS THEN NoSnap ELSE SnapKept]
            /\ UNCHANGED <<simple_vars, adapter_vars>>

KvtCreateTable == KvtCreateTableOf(TableNames, PartitionMethods) /\ UNCHANGED thread_vars

KvtStartTransactionOf(ids) ==
    /\ mgr.next_tx_id \in ids
    /\ LET o == KVT_start_transaction(mgr)
           tx == o.r.out
       IN  /\ mgr' = o.s /\ ret' = o.r
           /\ trace' = [obs |-> Put(trace.obs, tx, EmptyMap),
                        lastw |-> Put(trace.lastw, tx, EmptyMap),
                        dirty |-> Put(trace.dirty, tx, {}),
                        snap |-> IF DOMAIN mgr.transactions = {}
                                 THEN [ok |-> TRUE, tables |-> mgr.tables]
                                 ELSE NoSnap]
           /\ UNCHANGED <<simple_vars, adapter_vars>>

KvtStartTransaction == KvtStartTransactionOf(1..MaxTx) /\ UNCHANGED thread_vars

KvtCommitTransactionOf(txs) ==
    \E tx \in txs :
        LET o == KVT_commit_transaction(mgr, tx)
        IN  /\ VersionsInBound(o.s)
            /\ mgr' = o.s /\ ret' = o.r
            /\ trace' =
                 IF o.r.err = SUCCESS
                 THEN [obs |-> Erase(trace.obs, tx),
                       lastw |-> Erase(trace.lastw, tx),
                       dirty |-> [t \in (DOMAIN trace.dirty) \ {tx} |->
                                     trace.dirty[t] \cup
                                       ((DOMAIN trace.obs[t]) \cap (DOMAIN trace.lastw[tx]))],
                       snap |-> NoSnap]
                 ELSE [trace EXCEPT !.snap = SnapKept]
            /\ UNCHANGED <<simple_vars, adapter_vars>>

KvtCommitTransaction == KvtCommitTransactionOf(TxArgs) /\ UNCHANGED thread_vars

KvtRollbackTransactionOf(txs) ==
    \E tx \in txs :
        LET o == KVT_rollback_transaction(mgr, tx)
        IN  /\ mgr' = o.s /\ ret' = o.r
            /\ trace' =
                 IF o.r.err = SUCCESS
                 THEN [obs |-> Erase(trace.obs, tx),
                       lastw |-> Erase(trace.lastw, tx),
                       dirty |-> Erase(trace.dirty, tx),
                       snap |-> trace.snap]
                 ELSE [trace EXCEPT !.snap = SnapKept]
            /\ UNCHANGED <<simple_vars, adapter_vars>>

KvtRollbackTransaction == KvtRollbackTransactionOf(TxArgs) /\ UNCHANGED thread_vars

KvtGetOf(txs, keys) ==
    \E tx \in txs, tn \in TableNames, k \in keys :
        LET o == KVT_get(mgr, tx, tn, k)
            tk == make_table_key(tn, k)
        IN  /\ mgr' = o.s /\ ret' = o.r
            /\ trace' =
                 IF /\ o.r.err = SUCCESS /\ tx # 0
                    /\ tk \notin DOMAIN trace.lastw[tx]
                    /\ tk \notin DOMAIN trace.obs[tx]
                 THEN [trace EXCEPT !.obs[tx] = Put(trace.obs[tx], tk, o.val),
                                    !.snap = SnapKept]
                 ELSE [trace EXCEPT !.snap = SnapKept]
            /\ UNCHANGED <<simple_vars, adapter_vars>>

KvtGet == KvtGetOf(TxArgs, KvtKeys) /\ UNCHANGED thread_vars

KvtSetOf(txs, keys, values) ==
    \E tx \in txs, tn \in TableNames, k \in keys, v \in values :
        LET o == KVT_set(mgr, tx, tn, k, v)
            tk == make_table_key(tn, k)
        IN  /\ VersionsInBound(o.s)
            /\ mgr' = o.s /\ ret' = o.r
            /\ trace' =
                 IF o.r.err = SUCCESS /\ tx # 0
                 THEN [trace EXCEPT !.lastw[tx] = Put(trace.lastw[tx], tk, v)]
                 ELSE IF o.r.err = SUCCESS THEN [trace EXCEPT !.snap = NoSnap]
                 ELSE [trace EXCEPT !.snap = SnapKept]
            /\ UNCHANGED <<simple_vars, adapter_vars>>

KvtSet == KvtSetOf(TxArgs, KvtKeys, Values) /\ UNCHANGED thread_vars

KvtScanOf(starts, ends, limits) ==
    \E tx \in TxArgs, tn \in TableNames, ks \in starts, ke \in ends, lim \in limits :
        LET o == KVT_scan(mgr, tx, tn, ks, ke, lim)
            r == [o.r EXCEPT !.key = ks, !.val = ke, !.out = lim]
        IN  /\ mgr' = o.s
            /\ IF o.ub
               THEN ret' \in {r, [r EXCEPT !.err = UNDEFINED_BEHAVIOUR]}
               ELSE ret' = r
            /\ trace' = [trace EXCEPT !.snap = SnapKept]
            /\ UNCHANGED <<simple_vars, adapter_vars>>

KvtScan == KvtScanOf(KvtKeys, KvtKeys, Limits) /\ UNCHANGED thread_vars

NextKVT ==
    \/ KvtCreateTable
    \/ KvtStartTransaction
    \/ KvtCommitTransaction
    \/ KvtRollbackTransaction
    \/ KvtGet
    \/ KvtSet
    \/ KvtScan

\* the lock-based and the optimistic engine, KVTManagerWrapper of kvt_mem.cpp
Spec2PL == InitKVT(TRUE) /\ [][NextKVT]_vars
SpecOCC == InitKVT(FALSE) /\ [][NextKVT]_vars

\* the lock-based engine called with two keys, and scans of ["a","b"] for one
\* or two items
ScanValues == { <<1>> }
ScanLimits == { 1, 2 }

KvtCreateRange == KvtCreateTableOf(TableNames, { "range" }) /\ UNCHANGED thread_vars
KvtGetKeys == KvtGetOf(TxArgs, Keys) /\ UNCHANGED thread_vars
KvtSetKeys == KvtSetOf(TxArgs, Keys, ScanValues) /\ UNCHANGED thread_vars
KvtScanKeys == KvtScanOf({ <<1>> }, { <<2>> }, ScanLimits) /\ UNCHANGED thread_vars

NextLocks ==
    \/ KvtCreateRange
    \/ KvtStartTransaction
    \/ KvtCommitTransaction
    \/ KvtRollbackTransaction
    \/ KvtGetKeys
    \/ KvtSetKeys
    \/ KvtScanKeys

SpecLocks == InitKVT(TRUE) /\ [][NextLocks]_vars

\* ------------------------------------------- threads and the engine-wide lock
\* every public function opens with std::lock_guard<std::mutex> lock(global_mutex):
\* the caller blocks in the constructor until the mutex is free, runs the body
\* holding it, and the destructor releases it when the function returns
engine_vars == <<simple_vars, adapter_vars, mgr, trace, ret>>

Call(t) ==
    /\ pc[t] = "idle"
    /\ pc' = [pc EXCEPT ![t] = "waiting"]
    /\ UNCHANGED <<global_mutex, engine_vars>>

Lock(t) ==
    /\ pc[t] = "waiting"
    /\ global_mutex = 0
    /\ global_mutex' = t
    /\ pc' = [pc EXCEPT ![t] = "locked"]
    /\ UNCHANGED engine_vars

Unlock_never(t) ==
    /\ pc[t] = "locked"
    /\ global_mutex = t
    /\ global_mutex' = t
    /\ pc' = [pc EXCEPT ![t] = "idle"]

Unlock(t) ==
    /\ pc[t] = "locked"
    /\ global_mutex = t
    /\ global_mutex' = 0
    /\ pc' = [pc EXCEPT ![t] = "idle"]

\* the ids of the two transactions the threads run, and the one-shot id
ThreadTxIds == { 1, 2 }
OneShot == { 0 }

ThreadCreateTable(t) == KvtCreateTableOf(TableNames, { "range" }) /\ Unlock(t)
ThreadStartTransaction(t) == KvtStartTransactionOf(ThreadTxIds) /\ Unlock(t)
ThreadRollbackTransaction(t) == KvtRollbackTransactionOf(ThreadTxIds) /\ Unlock(t)
ThreadGet(t) == KvtGetOf(ThreadTxIds, Keys) /\ Unlock(t)
ThreadSet(t) == KvtSetOf(OneShot, Keys, ScanValues) /\ Unlock(t)

\* the body of the call a thread makes, whichever function it called
Run(t) ==
    \/ ThreadCreateTable(t)
    \/ ThreadStartTransaction(t)
    \/ ThreadRollbackTransaction(t)
    \/ ThreadGet(t)
    \/ ThreadSet(t)

NextThreads ==
    \E t \in Threads :
        \/ Call(t)
        \/ Lock(t)
        \/ ThreadCreateTable(t)
        \/ ThreadStartTransaction(t)
            \/ ThreadRollbackTransaction(t)
        \/ ThreadGet(t)
        \/ ThreadSet(t)

\* the lock-based engine called by two threads; the mutex is granted fairly
\* and a thread that holds it goes on running
SpecThreads ==
    /\ InitKVT(TRUE)
    /\ [][NextThreads]_vars
    /\ \A t \in Threads : SF_vars(Lock(t)) /\ WF_vars(Run(t))

\* ------------------------------------------------- the column serialization
\* janusgraph_kvt_adapter.h, namespace serialization. A std::string is a
\* sequence of bytes 0..255; operator< on ColumnValue compares the columns.
KEY_COLUMN_SEPARATOR == 31

ColumnValue(c, v) == [column |-> c, value |-> v]

\* a uint32_t written with ss.write / read back with memcpy (little-endian)
U32(n) == << n % 256, (n \div 256) % 256, (n \div 65536) % 256, (n \div 16777216) % 256 >>

\* the uint32_t at the 0-based offset ptr of data
ReadU32(data, ptr) ==
    data[ptr + 1] + 256 * data[ptr + 2] + 65536 * data[ptr + 3] + 16777216 * data[ptr + 4]

\* std::is_sorted with ColumnValue::operator<
is_sorted(columns) ==
    \A i \in 1..(Len(columns) - 1) : ~LexLT(columns[i + 1].column, columns[i].column)

RECURSIVE WritePairs(_)
\* the loop of serialize_columns
WritePairs(columns) ==
    IF columns = << >> THEN << >>
    ELSE LET cv == Head(columns)
         IN  U32(Len(cv.column)) \o cv.column \o U32(Len(cv.value)) \o cv.value
               \o WritePairs(Tail(columns))

serialize_columns_short_count(columns) ==
    IF Len(columns) = 0
    THEN [ok |-> FALSE, data |-> << >>]
    ELSE IF ~is_sorted(columns)
    THEN [ok |-> FALSE, data |-> << >>]
    ELSE [ok |-> TRUE, data |-> U32(Len(columns) - 1) \o WritePairs(columns)]

\* ok = FALSE: the CHECK threw std::runtime_error
serialize_columns(columns) ==
    IF Len(columns) = 0
    THEN [ok |-> FALSE, data |-> << >>]
    ELSE IF ~is_sorted(columns)
    THEN [ok |-> FALSE, data |-> << >>]
    ELSE [ok |-> TRUE, data |-> U32(Len(columns)) \o WritePairs(columns)]

RECURSIVE ReadPairs(_, _, _, _)
\* the loop of deserialize_columns: ptr is the offset of the next byte, n the
\* pairs still to read; a length that runs past the end breaks the loop
ReadPairs(data, ptr, n, result) ==
    IF n = 0 \/ ptr + 4 > Len(data) THEN result
    ELSE LET col_len == ReadU32(data, ptr)
             p1 == ptr + 4
         IN  IF p1 + col_len > Len(data) THEN result
             ELSE LET column == SubSeq(data, p1 + 1, p1 + col_len)
                      p2 == p1 + col_len
                  IN  IF p2 + 4 > Len(data) THEN result
                      ELSE LET val_len == ReadU32(data, p2)
                               p3 == p2 + 4
                           IN  IF p3 + val_len > Len(data) THEN result
                               ELSE ReadPairs(data, p3 + val_len, n - 1,
                                              Append(result,
                                                     ColumnValue(column,
                                                                 SubSeq(data, p3 + 1, p3 + val_len))))

\* the pairs the loop decodes, before the sortedness check
DecodedPairs(data) ==
    IF Len(data) < 4 THEN << >> ELSE ReadPairs(data, 4, ReadU32(data, 0), << >>)

deserialize_columns_unchecked(data) ==
    IF data = << >>
    THEN [ok |-> FALSE, columns |-> << >>]
    ELSE [ok |-> TRUE, columns |-> DecodedPairs(data)]

\* ok = FALSE: the CHECK threw std::runtime_error
deserialize_columns(data) ==
    IF data = << >>
    THEN [ok |-> FALSE, columns |-> << >>]
    ELSE LET result == DecodedPairs(data)
         IN  IF result # << >> /\ ~is_sorted(result)
             THEN [ok |-> FALSE, columns |-> << >>]
             ELSE [ok |-> TRUE, columns |-> result]

HasSeparator(s) == \E i \in 1..Len(s) : s[i] = KEY_COLUMN_SEPARATOR

\* make_composite_key without the separator test on the key
make_composite_key_unchecked_key(key, column) ==
    IF HasSeparator(column) \/ key = << >> \/ column = << >>
    THEN [ok |-> FALSE, key |-> << >>]
    ELSE [ok |-> TRUE, key |-> key \o <<KEY_COLUMN_SEPARATOR>> \o column]

\* ok = FALSE: std::invalid_argument
make_composite_key(key, column) ==
    IF HasSeparator(key) \/ HasSeparator(column) \/ key = << >> \/ column = << >>
    THEN [ok |-> FALSE, key |-> << >>]
    ELSE [ok |-> TRUE, key |-> key \o <<KEY_COLUMN_SEPARATOR>> \o column]

\* ok = FALSE: std::invalid_argument
split_composite_key(composite_key) ==
    IF HasSeparator(composite_key)
    THEN LET pos == CHOOSE i \in 1..Len(composite_key) :
                      /\ composite_key[i] = KEY_COLUMN_SEPARATOR
                      /\ \A j \in 1..(i - 1) : composite_key[j] # KEY_COLUMN_SEPARATOR
         IN  [ok |-> TRUE,
              key |-> SubSeq(composite_key, 1, pos - 1),
              column |-> SubSeq(composite_key, pos + 1, Len(composite_key))]
    ELSE [ok |-> FALSE, key |-> << >>, column |-> << >>]

\* ------------------------------------------------- the engine under the adapter
\* kvt_get / kvt_set / kvt_del / kvt_scan of kvt_inc.h on one range-partitioned
\* table, called one-shot (tx_id = 0): the contracts of the engine operations
kvt_get(store, key) ==
    IF key \in DOMAIN store
    THEN [err |-> SUCCESS, value |-> store[key]]
    ELSE [err |-> KEY_NOT_FOUND, value |-> << >>]

kvt_set(store, key, value) == [s |-> Put(store, key, value), err |-> SUCCESS]

kvt_del(store, key) ==
    IF key \in DOMAIN store
    THEN [s |-> Erase(store, key), err |-> SUCCESS]
    ELSE [s |-> store, err |-> KEY_NOT_FOUND]

kvt_scan(store, key_start, key_end, num_item_limit) ==
    LET ordered == SortedSeq({ k \in DOMAIN store : LexLE(key_start, k) /\ LexLE(k, key_end) })
    IN  [err |-> SUCCESS,
         results |-> Take([i \in 1..Len(ordered) |-> <<ordered[i], store[ordered[i]]>>],
                          num_item_limit)]

\* ------------------------------------------------- JanusGraphKVTAdapter
\* g is g_use_composite_key_method. Every member function is an operator
\* from the engine table and the arguments to the table it leaves and what
\* the caller gets: res is "true" or "false", or "throws" when an exception
\* leaves the function
ScanItemLimit == 10000

Out(s, res, value, columns) == [s |-> s, res |-> res, value |-> value, columns |-> columns]
Bool(b) == IF b THEN "true" ELSE "false"

RECURSIVE ExtractColumns(_, _, _)
\* the loop over scan_results of get_all_columns
ExtractColumns(scan_results, key, result) ==
    IF scan_results = << >> THEN [ok |-> TRUE, columns |-> result]
    ELSE LET sp == split_composite_key(Head(scan_results)[1])
         IN  IF ~sp.ok \/ sp.key # key
             THEN [ok |-> FALSE, columns |-> << >>]
             ELSE ExtractColumns(Tail(scan_results), key,
                                 Append(result, ColumnValue(sp.column, Head(scan_results)[2])))

\* ok = FALSE: an exception leaves get_all_columns
get_all_columns(g, store, key) ==
    IF g
    THEN LET start_key == key \o <<KEY_COLUMN_SEPARATOR>>
             end_key == key \o <<KEY_COLUMN_SEPARATOR + 1>>
             sc == kvt_scan(store, start_key, end_key, ScanItemLimit)
         IN  IF sc.err = SUCCESS
             THEN ExtractColumns(sc.results, key, << >>)
             ELSE [ok |-> TRUE, columns |-> << >>]
    ELSE LET got == kvt_get(store, key)
         IN  IF got.err = SUCCESS
             THEN deserialize_columns(got.value)
             ELSE [ok |-> TRUE, columns |-> << >>]

\* the copy of janusgraph-inmemory/kvt/janusgraph: the start key is built
\* with make_composite_key(key, "")
get_all_columns_inmemory(g, store, key) ==
    IF g
    THEN LET start_key == make_composite_key(key, << >>)
             end_key == key \o <<KEY_COLUMN_SEPARATOR + 1>>
         IN  IF ~start_key.ok
             THEN [ok |-> FALSE, columns |-> << >>]
             ELSE LET sc == kvt_scan(store, start_key.key, end_key, ScanItemLimit)
                  IN  IF sc.err = SUCCESS
                      THEN ExtractColumns(sc.results, key, << >>)
                      ELSE [ok |-> TRUE, columns |-> << >>]
    ELSE LET got == kvt_get(store, key)
         IN  IF got.err = SUCCESS
             THEN deserialize_columns(got.value)
             ELSE [ok |-> TRUE, columns |-> << >>]

\* std::lower_bound on the column names: the first position whose column is
\* not below the one looked for, Len + 1 when there is none
lower_bound(columns, column) ==
    CHOOSE i \in 1..(Len(columns) + 1) :
        /\ \A j \in 1..(i - 1) : LexLT(columns[j].column, column)
        /\ i = Len(columns) + 1 \/ ~LexLT(columns[i].column, column)

InsertAt(columns, i, cv) ==
    SubSeq(columns, 1, i - 1) \o <<cv>> \o SubSeq(columns, i, Len(columns))
EraseAt(columns, i) ==
    SubSeq(columns, 1, i - 1) \o SubSeq(columns, i + 1, Len(columns))

\* set_column of the serialized layout from the point where get_all_columns
\* has returned existing: update or insert, serialize, kvt_set
store_column(store, key, column, value, existing) ==
    IF ~existing.ok
    THEN Out(store, "throws", << >>, << >>)
    ELSE LET cols == existing.columns
             it == lower_bound(cols, column)
             columns ==
               IF cols = << >> THEN <<ColumnValue(column, value)>>
               ELSE IF it <= Len(cols) /\ cols[it].column = column
               THEN [cols EXCEPT ![it].value = value]
               ELSE InsertAt(cols, it, ColumnValue(column, value))
             serialized == serialize_columns(columns)
         IN  IF (cols # << >> /\ ~is_sorted(cols)) \/ ~serialized.ok
             THEN Out(store, "throws", << >>, << >>)
             ELSE LET w == kvt_set(store, key, serialized.data)
                  IN  Out(w.s, Bool(w.err = SUCCESS), << >>, << >>)

set_column(g, store, key, column, value) ==
    IF key = << >> \/ column = << >>
    THEN Out(store, "false", << >>, << >>)
    ELSE IF g
    THEN LET composite_key == make_composite_key(key, column)
         IN  IF ~composite_key.ok
             THEN Out(store, "throws", << >>, << >>)
             ELSE LET w == kvt_set(store, composite_key.key, value)
                  IN  Out(w.s, Bool(w.err = SUCCESS), << >>, << >>)
    ELSE store_column(store, key, column, value, get_all_columns(g, store, key))

get_column(g, store, key, column) ==
    IF key = << >> \/ column = << >>
    THEN Out(store, "false", << >>, << >>)
    ELSE IF g
    THEN LET composite_key == make_composite_key(key, column)
         IN  IF ~composite_key.ok
             THEN Out(store, "throws", << >>, << >>)
             ELSE LET got == kvt_get(store, composite_key.key)
                  IN  Out(store, Bool(got.err = SUCCESS), got.value, << >>)
    ELSE LET got == kvt_get(store, key)
         IN  IF got.err # SUCCESS
             THEN Out(store, "false", << >>, << >>)
             ELSE LET de == deserialize_columns(got.value)
                      it == lower_bound(de.columns, column)
                  IN  IF ~de.ok
                      THEN Out(store, "throws", << >>, << >>)
                      ELSE IF it <= Len(de.columns) /\ de.columns[it].column = column
                      THEN Out(store, "true", de.columns[it].value, << >>)
                      ELSE Out(store, "false", << >>, << >>)

delete_column_keeps_frame(g, store, key, column) ==
    IF key = << >> \/ column = << >>
    THEN Out(store, "false", << >>, << >>)
    ELSE IF g
    THEN LET composite_key == make_composite_key(key, column)
         IN  IF ~composite_key.ok
             THEN Out(store, "throws", << >>, << >>)
             ELSE LET d == kvt_del(store, composite_key.key)
                  IN  Out(d.s, Bool(d.err = SUCCESS), << >>, << >>)
    ELSE LET existing == get_all_columns(g, store, key)
             cols == existing.columns
             it == lower_bound(cols, column)
         IN  IF ~existing.ok \/ ~is_sorted(cols)
             THEN Out(store, "throws", << >>, << >>)
             ELSE IF it > Len(cols) \/ cols[it].column # column
             THEN Out(store, "false", << >>, << >>)
             ELSE LET columns == EraseAt(cols, it)
                      w == kvt_set(store, key, U32(Len(columns)) \o WritePairs(columns))
                  IN  Out(w.s, Bool(w.err = SUCCESS), << >>, << >>)

delete_column(g, store, key, column) ==
    IF key = << >> \/ column = << >>
    THEN Out(store, "false", << >>, << >>)
    ELSE IF g
    THEN LET composite_key == make_composite_key(key, column)
         IN  IF ~composite_key.ok
             THEN Out(store, "throws", << >>, << >>)
             ELSE LET d == kvt_del(store, composite_key.key)
                  IN  Out(d.s, Bool(d.err = SUCCESS), << >>, << >>)
    ELSE LET existing == get_all_columns(g, store, key)
             cols == existing.columns
             it == lower_bound(cols, column)
         IN  IF ~existing.ok \/ ~is_sorted(cols)
             THEN Out(store, "throws", << >>, << >>)
             ELSE IF it > Len(cols) \/ cols[it].column # column
             THEN Out(store, "false", << >>, << >>)
             ELSE LET columns == EraseAt(cols, it)
                  IN  IF columns = << >>
                      THEN LET d == kvt_del(store, key)
                           IN  Out(d.s, Bool(d.err = SUCCESS), << >>, << >>)
                      ELSE LET serialized == serialize_columns(columns)
                           IN  IF ~serialized.ok
                               THEN Out(store, "throws", << >>, << >>)
                               ELSE LET w == kvt_set(store, key, serialized.data)
                                    IN  Out(w.s, Bool(w.err = SUCCESS), << >>, << >>)

RECURSIVE DeleteEach(_, _, _)
\* the loop of delete_key over the columns get_all_columns returned
DeleteEach(store, key, columns) ==
    IF columns = << >> THEN Out(store, "true", << >>, << >>)
    ELSE LET composite_key == make_composite_key(key, Head(columns).column)
         IN  IF ~composite_key.ok
             THEN Out(store, "throws", << >>, << >>)
             ELSE LET d == kvt_del(store, composite_key.key)
                  IN  IF d.err # SUCCESS
                      THEN Out(d.s, "false", << >>, << >>)
                      ELSE DeleteEach(d.s, key, Tail(columns))

DeleteFirst(store, key, columns) ==
    IF columns = << >> THEN Out(store, "true", << >>, << >>)
    ELSE LET composite_key == make_composite_key(key, Head(columns).column)
         IN  IF ~composite_key.ok
             THEN Out(store, "throws", << >>, << >>)
             ELSE LET d == kvt_del(store, composite_key.key)
                  IN  Out(d.s, Bool(d.err = SUCCESS), << >>, << >>)

delete_key_first_column(g, store, key) ==
    IF key = << >>
    THEN Out(store, "false", << >>, << >>)
    ELSE IF g
    THEN LET existing == get_all_columns(g, store, key)
         IN  IF ~existing.ok
             THEN Out(store, "throws", << >>, << >>)
             ELSE DeleteFirst(store, key, existing.columns)
    ELSE LET d == kvt_del(store, key)
         IN  Out(d.s, Bool(d.err = SUCCESS), << >>, << >>)

delete_key(g, store, key) ==
    IF key = << >>
    THEN Out(store, "false", << >>, << >>)
    ELSE IF g
    THEN LET existing == get_all_columns(g, store, key)
         IN  IF ~existing.ok
             THEN Out(store, "throws", << >>, << >>)
             ELSE DeleteEach(store, key, existing.columns)
    ELSE LET d == kvt_del(store, key)
         IN  Out(d.s, Bool(d.err = SUCCESS), << >>, << >>)

RECURSIVE SetEach(_, _, _)
\* the loop of set_columns over the columns given
SetEach(store, key, columns) ==
    IF columns = << >> THEN Out(store, "true", << >>, << >>)
    ELSE LET composite_key == make_composite_key(key, Head(columns).column)
         IN  IF ~composite_key.ok
             THEN Out(store, "throws", << >>, << >>)
             ELSE LET w == kvt_set(store, composite_key.key, Head(columns).value)
                  IN  IF w.err # SUCCESS
                      THEN Out(w.s, "false", << >>, << >>)
                      ELSE SetEach(w.s, key, Tail(columns))

RECURSIVE MergeInto(_, _)
\* column_map[cv.column] = cv.value for each cv in turn
MergeInto(column_map, columns) ==
    IF columns = << >> THEN column_map
    ELSE MergeInto(Put(column_map, Head(columns).column, Head(columns).value), Tail(columns))

\* the std::map read in order
MapToColumns(column_map) ==
    LET ordered == SortedSeq(DOMAIN column_map)
    IN  [i \in 1..Len(ordered) |-> ColumnValue(ordered[i], column_map[ordered[i]])]

\* set_columns of the serialized layout from the point where get_all_columns
\* has returned existing: merge, serialize, kvt_set
store_merged(store, key, columns, existing) ==
    IF ~existing.ok
    THEN Out(store, "throws", << >>, << >>)
    ELSE LET merged == MapToColumns(MergeInto(MergeInto(EmptyMap, existing.columns),
                                              columns))
             serialized == serialize_columns(merged)
         IN  IF ~serialized.ok
             THEN Out(store, "throws", << >>, << >>)
             ELSE LET w == kvt_set(store, key, serialized.data)
                  IN  Out(w.s, Bool(w.err = SUCCESS), << >>, << >>)

set_columns_replaces(g, store, key, columns) ==
    IF key = << >> \/ columns = << >>
    THEN Out(store, "false", << >>, << >>)
    ELSE IF g
    THEN SetEach(store, key, columns)
    ELSE LET merged == MapToColumns(MergeInto(EmptyMap, columns))
             serialized == serialize_columns(merged)
         IN  IF ~serialized.ok
             THEN Out(store, "throws", << >>, << >>)
             ELSE LET w == kvt_set(store, key, serialized.data)
                  IN  Out(w.s, Bool(w.err = SUCCESS), << >>, << >>)

set_columns(g, store, key, columns) ==
    IF key = << >> \/ columns = << >>
    THEN Out(store, "false", << >>, << >>)
    ELSE IF g
    THEN SetEach(store, key, columns)
    ELSE store_merged(store, key, columns, get_all_columns(g, store, key))

\* ------------------------------------------------- the adapter calls
\* every call is made with the same arguments on the serialized-columns run
\* (storeA) and on the composite-key run (storeB)
K1 == <<1>>
\* the keys "", "a" and "a " (0x20 is the byte after the separator)
AdapterKeys == { << >>, K1, K1 \o <<KEY_COLUMN_SEPARATOR + 1>> }
\* the columns "", "c" and "d"
AdapterColumns == { << >>, <<1>>, <<2>> }
\* the values "" and "v"
AdapterValues == { << >>, <<7>> }
\* the column lists set_columns is called with: none, one pair, two pairs
\* out of order, one column twice
AdapterLists ==
    { << >>,
      << ColumnValue(<<1>>, << >>) >>,
      << ColumnValue(<<2>>, << >>), ColumnValue(<<1>>, <<7>>) >>,
      << ColumnValue(<<2>>, <<7>>), ColumnValue(<<2>>, << >>) >> }

Result(o) == [res |-> o.res, value |-> o.value, columns |-> o.columns]
Returned(r) == Out(<< >>, IF r.ok THEN "true" ELSE "throws", << >>, r.columns)

ACall(op, key, column, value, columns, a, b) ==
    /\ aret' = [op |-> op, key |-> key, column |-> column, value |-> value,
                columns |-> columns, A |-> Result(a), B |-> Result(b)]
    /\ UNCHANGED <<simple_vars, mgr, trace, ret, thread_vars, caller_vars>>

\* history: the columns the composite-key run has set and not deleted since
RefColumns(key) == IF key \in DOMAIN reference THEN reference[key] ELSE EmptyMap
RefPut(key, column, value) == Put(reference, key, Put(RefColumns(key), column, value))

RECURSIVE RefPutEach(_, _, _)
\* the pairs a set_columns call wrote: all of them, or those before the
\* column name that made it throw
RefPutEach(ref, key, columns) ==
    IF columns = << >> \/ Head(columns).column = << >> \/ HasSeparator(Head(columns).column)
    THEN ref
    ELSE RefPutEach(Put(ref, key,
                        Put(IF key \in DOMAIN ref THEN ref[key] ELSE EmptyMap,
                            Head(columns).column, Head(columns).value)),
                    key, Tail(columns))

SetColumnOf(keys, columns, values) ==
    \E key \in keys, column \in columns, value \in values :
        LET a == set_column(FALSE, storeA, key, column, value)
            b == set_column(TRUE, storeB, key, column, value)
        IN  /\ storeA' = a.s /\ storeB' = b.s
            /\ reference' = IF b.res = "true" THEN RefPut(key, column, value) ELSE reference
            /\ ACall("set_column", key, column, value, << >>, a, b)

SetColumn == SetColumnOf(AdapterKeys, AdapterColumns, AdapterValues)

GetColumn ==
    \E key \in AdapterKeys, column \in AdapterColumns :
        LET a == get_column(FALSE, storeA, key, column)
            b == get_column(TRUE, storeB, key, column)
        IN  /\ storeA' = a.s /\ storeB' = b.s
            /\ UNCHANGED reference
            /\ ACall("get_column", key, column, << >>, << >>, a, b)

DeleteColumn ==
    \E key \in AdapterKeys, column \in AdapterColumns :
        LET a == delete_column(FALSE, storeA, key, column)
            b == delete_column(TRUE, storeB, key, column)
        IN  /\ storeA' = a.s /\ storeB' = b.s
            /\ reference' = IF b.res = "true"
                            THEN Put(reference, key, Erase(RefColumns(key), column))
                            ELSE reference
            /\ ACall("delete_column", key, column, << >>, << >>, a, b)

GetAllColumns ==
    \E key \in AdapterKeys :
        LET a == Returned(get_all_columns(FALSE, storeA, key))
            b == Returned(get_all_columns(TRUE, storeB, key))
        IN  /\ UNCHANGED <<storeA, storeB, reference>>
            /\ ACall("get_all_columns", key, << >>, << >>, << >>, a, b)

GetAllColumnsInmemory ==
    \E key \in AdapterKeys :
        LET a == Returned(get_all_columns_inmemory(FALSE, storeA, key))
            b == Returned(get_all_columns_inmemory(TRUE, storeB, key))
        IN  /\ UNCHANGED <<storeA, storeB, reference>>
            /\ ACall("get_all_columns_inmemory", key, << >>, << >>, << >>, a, b)

DeleteKey ==
    \E key \in AdapterKeys :
        LET a == delete_key(FALSE, storeA, key)
            b == delete_key(TRUE, storeB, key)
        IN  /\ storeA' = a.s /\ storeB' = b.s
            /\ reference' = IF b.res = "true" THEN Erase(reference, key) ELSE reference
            /\ ACall("delete_key", key, << >>, << >>, << >>, a, b)

SetColumns ==
    \E key \in AdapterKeys, columns \in AdapterLists :
        LET a == set_columns(FALSE, storeA, key, columns)
            b == set_columns(TRUE, storeB, key, columns)
        IN  /\ storeA' = a.s /\ storeB' = b.s
            /\ reference' = IF b.res \in { "true", "throws" }
                            THEN RefPutEach(reference, key, columns)
                            ELSE reference
            /\ ACall("set_columns", key, << >>, << >>, columns, a, b)

NextAdapter ==
    \/ SetColumn
    \/ GetColumn
    \/ DeleteColumn
    \/ GetAllColumns
    \/ GetAllColumnsInmemory
    \/ DeleteKey
    \/ SetColumns

SpecAdapter == InitSimple /\ [][NextAdapter]_vars

\* ------------------------------------------------- the serialization alone
\* the column names "", "\0", "\xff" and "\x1f\0", the values "", "\0" and "\xff\1"
FrameColumns == { << >>, <<0>>, <<255>>, <<KEY_COLUMN_SEPARATOR, 0>> }
FrameValues == { << >>, <<0>>, <<255, 1>> }
FramePairs == { ColumnValue(c, v) : c \in FrameColumns, v \in FrameValues }
\* the lists of no, one and two pairs
FrameLists ==
    { << >> } \cup { <<p>> : p \in FramePairs } \cup { <<p, q>> : p \in FramePairs, q \in FramePairs }
\* the frame of a list as it lies in memory, and the frame cut one byte short
RawFrame(columns) == U32(Len(columns)) \o WritePairs(columns)
FrameInputs ==
    { << >> } \cup { RawFrame(S) : S \in FrameLists }
              \cup { SubSeq(RawFrame(S), 1, Len(RawFrame(S)) - 1) : S \in FrameLists }

SerializeColumns ==
    \E columns \in FrameLists :
        LET r == serialize_columns(columns)
            o == Out(<< >>, IF r.ok THEN "true" ELSE "throws", r.data, << >>)
        IN  /\ UNCHANGED <<storeA, storeB, reference>>
            /\ ACall("serialize_columns", << >>, << >>, << >>, columns, o, o)

\* the frame serialize_columns has just returned, when it returned one
LastFrame == IF aret.op = "serialize_columns" /\ aret.A.res = "true" THEN { aret.A.value } ELSE {}

DeserializeColumns ==
    \E data \in FrameInputs \cup LastFrame :
        LET r == deserialize_columns(data)
            o == Out(<< >>, IF r.ok THEN "true" ELSE "throws", << >>, r.columns)
        IN  /\ UNCHANGED <<storeA, storeB, reference>>
            /\ ACall("deserialize_columns", << >>, << >>, data, << >>, o, o)

NextFrames ==
    \/ SerializeColumns
    \/ DeserializeColumns

SpecFrames == InitSimple /\ [][NextFrames]_vars

\* ------------------------------------------------ the table and id registry
T2 == <<2>>
RegistryNames == { T1, T2 }

CreateTableNamed ==
    \E tn \in RegistryNames, pm \in PartitionMethods :
        LET o == Simple_create_table(SimpleState, tn, pm)
        IN  /\ SetSimple(o.s) /\ ret' = o.r
            /\ UNCHANGED <<hist, shadow, live>>

KvtCreateTableNamed == KvtCreateTableOf(RegistryNames, PartitionMethods) /\ UNCHANGED thread_vars

NextRegistry ==
    \/ CreateTableNamed
    \/ StartTransaction
    \/ CommitTransaction
    \/ RollbackTransaction
    \/ KvtCreateTableNamed
    \/ KvtStartTransaction
    \/ KvtCommitTransaction
    \/ KvtRollbackTransaction

SpecRegistry == InitSimple /\ [][NextRegistry]_vars

\* ------------------------------------------------ batches on the serialized engine
BatchOps ==
    { KVTOp(OP_GET, T1, k, NoVal) : k \in KvtKeys }
      \cup { KVTOp(OP_SET, T1, k, v) : k \in KvtKeys, v \in Values }
      \cup { KVTOp(OP_DEL, T1, k, NoVal) : k \in KvtKeys }
      \cup { KVTOp(OP_UNKNOWN, T1, k, NoVal) : k \in KvtKeys }

\* the sizes of the batches: empty, one op, two ops
BatchSizes == { 0, 1, 2 }

Batches == UNION { [1..n -> BatchOps] : n \in BatchSizes }

\* hist and shadow after the ops i.. of a batch, given their results
RECURSIVE HistoryAfter(_, _, _, _, _)
HistoryAfter(h, tx_id, batch_ops, batch_results, i) ==
    IF i > Len(batch_ops) THEN h
    ELSE LET op == batch_ops[i]
             tk == make_table_key(op.table_name, op.key)
             done == i <= Len(batch_results) /\ batch_results[i].error = SUCCESS
             nh == IF done /\ tx_id # 0 /\ op.op = OP_SET
                   THEN [h EXCEPT !.hist[tk] = <<"set", op.value>>]
                   ELSE IF done /\ tx_id # 0 /\ op.op = OP_DEL
                   THEN [h EXCEPT !.hist[tk] = <<"del">>]
                   ELSE IF done /\ tx_id = 0 /\ op.op = OP_SET
                   THEN [h EXCEPT !.shadow = Put(h.shadow, tk, op.value)]
                   ELSE IF done /\ tx_id = 0 /\ op.op = OP_DEL
                   THEN [h EXCEPT !.shadow = Erase(h.shadow, tk)]
                   ELSE h
         IN  HistoryAfter(nh, tx_id, batch_ops, batch_results, i + 1)

BatchExecute ==
    \E tx \in TxArgs, batch_ops \in Batches :
        LET o == batch_execute(SimpleState, tx, batch_ops)
            h == HistoryAfter([hist |-> hist, shadow |-> shadow], tx, batch_ops, o.r.res, 1)
        IN  /\ SetSimple(o.s) /\ ret' = o.r
            /\ hist' = h.hist /\ shadow' = h.shadow
            /\ UNCHANGED live

NextBatch ==
    \/ StartTransaction
    \/ CommitTransaction
    \/ RollbackTransaction
    \/ BatchExecute

SpecBatch == InitSimple /\ [][NextBatch]_vars

\* the serialized engine with its table registry
CreateTable ==
    \E tn \in TableNames, pm \in PartitionMethods :
        LET o == Simple_create_table(SimpleState, tn, pm)
        IN  /\ SetSimple(o.s) /\ ret' = o.r
            /\ UNCHANGED <<hist, shadow, live>>

NextSimpleTables ==
    \/ CreateTable
    \/ NextSimple

SpecSimpleTables == InitSimple /\ [][NextSimpleTables]_vars

\* ------------------------------------------------------------------ claims
\* the table_key of the key the last get/set/del was called with
RetTK == make_table_key(T1, ret.key)

\* what a scan of the committed table alone returns
CommittedScan(table_name, key_start, key_end, num_item_limit) ==
    LET inrange == { k \in DOMAIN shadow :
                       /\ LexLE(make_table_key(table_name, key_start), k)
                       /\ LexLE(k, make_table_key(table_name, key_end)) }
        ordered == SortedSeq(inrange)
    IN  Take([i \in 1..Len(ordered) |-> <<ordered[i], shadow[ordered[i]]>>], num_item_limit)

\* C1: after a successful commit(T), a one-shot get reads v for every key
\* whose last operation in T was set(T, K, v) and fails with KEY_NOT_FOUND for
\* every key whose last operation in T was del(T, K), also for keys that
\* held a committed value before T began.
C1_CommitInstallsLastOps ==
    (ret.op = "commit" /\ ret.err = SUCCESS) =>
        \A tn \in TableNames, k \in Keys :
            LET tk == make_table_key(tn, k)
                g == Simple_get(SimpleState, 0, tn, k).r
            IN  /\ hist[tk][1] = "set" => (g.err = SUCCESS /\ g.val = hist[tk][2])
                /\ hist[tk][1] = "del" => g.err = KEY_NOT_FOUND

\* C2: read-your-writes: a get by the live transaction of a key whose last
\* operation in that transaction was set(T, K, v) returns v.
C2_ReadYourWrites ==
    /\ (ret.op = "get" /\ ret.tx \in live /\ hist[RetTK][1] = "set")
          => (ret.err = SUCCESS /\ ret.val = hist[RetTK][2])
    /\ \A tx \in live, tn \in TableNames, k \in Keys :
          LET tk == make_table_key(tn, k)
              g == Simple_get(SimpleState, tx, tn, k).r
          IN  hist[tk][1] = "set" => (g.err = SUCCESS /\ g.val = hist[tk][2])

\* the live transaction read back its own write over a different committed value
C2_Witness ==
    /\ ret.op = "get" /\ ret.tx \in live /\ ret.err = SUCCESS
    /\ hist[RetTK][1] = "set" /\ ret.val = hist[RetTK][2]
    /\ RetTK \in DOMAIN table_data /\ table_data[RetTK] # ret.val

\* C3: a get by the live transaction of a key whose last operation in that
\* transaction was del fails with KEY_IS_DELETED; a one-shot get of a key that
\* a one-shot del removed fails with KEY_NOT_FOUND.
C3_DeletedKeyReads ==
    /\ (ret.op = "get" /\ ret.tx \in live /\ hist[RetTK][1] = "del")
          => ret.err = KEY_IS_DELETED
    /\ (ret.op = "get" /\ ret.tx = 0 /\ RetTK \notin DOMAIN shadow)
          => ret.err = KEY_NOT_FOUND

\* C4: while a transaction is live, a get or scan made with any other tx-id
\* (0 included) returns the committed state, never the live transaction's
\* buffered value or pending deletion.
C4_Isolation ==
    (live # {} /\ ret.tx \notin live) =>
        /\ ret.op = "get" =>
              \/ ret.err = TRANSACTION_NOT_FOUND
              \/ IF RetTK \in DOMAIN shadow
                 THEN ret.err = SUCCESS /\ ret.val = shadow[RetTK]
                 ELSE ret.err = KEY_NOT_FOUND
        /\ (ret.op = "scan" /\ LexLE(ret.key, ret.val)) =>
              \/ ret.err = TRANSACTION_NOT_FOUND
              \/ ret.err = SUCCESS /\ ret.res = CommittedScan(T1, ret.key, ret.val, ret.out)

Present(m, table_key) ==
    /\ SplitName(table_key) \in DOMAIN m.tables
    /\ SplitKey(table_key) \in DOMAIN m.tables[SplitName(table_key)].data

\* the entry the tables hold for the table_key
Committed(m, table_key) == m.tables[SplitName(table_key)].data[SplitKey(table_key)]

Recorded(tx) == (DOMAIN tx.read_set) \cup (DOMAIN tx.write_set) \cup tx.delete_set

C9_SingleLiveTransaction ==
    [][ /\ Cardinality(live') <= 1
        /\ ret'.op = "start" =>
              IF live # {}
              THEN /\ ret'.err = TRANSACTION_ALREADY_RUNNING
                   /\ UNCHANGED <<table_data, write_set, delete_set,
                                  current_tx_id, next_tx_id, live>>
              ELSE /\ ret'.err = SUCCESS /\ ret'.out # 0
                   /\ live' = {ret'.out} ]_vars

\* a begin was refused while the live transaction held a write and a deletion
C9_Witness ==
    /\ ret.op = "start" /\ ret.err = TRANSACTION_ALREADY_RUNNING
    /\ live # {} /\ DOMAIN write_set # {} /\ delete_set # {}

\* C10: a get, set, del, scan, commit or rollback that passes a non-zero id
\* which is not the id of a live transaction (finished, or never returned by
\* begin) fails with TRANSACTION_NOT_FOUND and changes no engine state.
C10_DeadIdRejected ==
    [][ ( /\ ret'.op \in {"get", "set", "del", "scan", "commit", "rollback"}
          /\ ret'.tx # 0 /\ ret'.tx \notin live )
        => ( /\ ret'.err = TRANSACTION_NOT_FOUND
             /\ UNCHANGED <<table_data, write_set, delete_set, current_tx_id>> ) ]_vars

\* C11: in every state no key is in both the write-set and the delete-set of
\* the transaction context; a set leaves its key out of the delete-set and a
\* del leaves its key out of the write-set.
C11_WriteDeleteDisjoint ==
    /\ (DOMAIN write_set) \cap delete_set = {}
    /\ (ret.op = "set" /\ ret.tx \in live /\ ret.err = SUCCESS)
          => (RetTK \in DOMAIN write_set /\ RetTK \notin delete_set)
    /\ (ret.op = "del" /\ ret.tx \in live /\ ret.err = SUCCESS)
          => (RetTK \in delete_set /\ RetTK \notin DOMAIN write_set)

\* the live transaction set a key while it holds a pending deletion of the
\* other key, a key the committed table holds
C11_Witness ==
    /\ ret.op = "set" /\ ret.tx \in live /\ ret.err = SUCCESS
    /\ RetTK \in DOMAIN write_set
    /\ \E tk \in delete_set : tk # RetTK /\ tk \in DOMAIN table_data

\* the ids of a registry are 1 .. next - 1, one table each
DenseIds(ids, next) ==
    /\ { ids[n] : n \in DOMAIN ids } = 1..(next - 1)
    /\ Cardinality(DOMAIN ids) = next - 1

KvtTableIds(m) == [n \in DOMAIN m.tables |-> m.tables[n].id]

\* C12: table ids are handed out 1, 2, 3, ... in creation order, and a failed
\* create consumes none; start_transaction returns a non-zero id and the id
\* counter only grows, by one per id returned, so every id returned is
\* greater than every id returned before and none is returned twice.
\* Checked at every step, for KVTManagerWrapperSimple and for mgr.
C12_IdsDenseAndFresh ==
    [][ /\ DenseIds(table_to_id', next_table_id')
        /\ DenseIds(KvtTableIds(mgr'), mgr'.next_table_id)
        /\ table_to_id' # table_to_id =>
              /\ ret'.op = "create" /\ ret'.err = SUCCESS
              /\ ret'.out = next_table_id /\ next_table_id' = next_table_id + 1
              /\ table_to_id' = Put(table_to_id, ret'.key, ret'.out)
        /\ mgr'.tables # mgr.tables =>
              /\ ret'.op = "create" /\ ret'.err = SUCCESS
              /\ ret'.out = mgr.next_table_id
              /\ mgr'.next_table_id = mgr.next_table_id + 1
              /\ KvtTableIds(mgr') = Put(KvtTableIds(mgr), ret'.key, ret'.out)
        /\ (ret'.op = "create" /\ ret'.err # SUCCESS) =>
              /\ next_table_id' = next_table_id
              /\ mgr'.next_table_id = mgr.next_table_id
        /\ next_tx_id' >= next_tx_id /\ mgr'.next_tx_id >= mgr.next_tx_id
        /\ (ret'.op = "start" /\ ret'.err = SUCCESS) =>
              /\ ret'.out # 0
              /\ \/ ret'.out = next_tx_id /\ next_tx_id' = next_tx_id + 1
                                           /\ mgr'.next_tx_id = mgr.next_tx_id
                 \/ ret'.out = mgr.next_tx_id /\ mgr'.next_tx_id = mgr.next_tx_id + 1
                                               /\ next_tx_id' = next_tx_id
        /\ (next_tx_id' # next_tx_id \/ mgr'.next_tx_id # mgr.next_tx_id) =>
              (ret'.op = "start" /\ ret'.err = SUCCESS)
      ]_vars

\* a create returned table id 2 when both registries hold two tables and both
\* engines have returned their second transaction id
C12_Witness ==
    /\ ret.op = "create" /\ ret.err = SUCCESS /\ ret.out = 2
    /\ next_table_id = 3 /\ mgr.next_table_id = 3
    /\ next_tx_id = 3 /\ mgr.next_tx_id = 3

\* what transaction tx sees: the table the calls outside the live transaction
\* made, overlaid with the live transaction's own last set or del of each key
VisibleTo(tx) ==
    IF tx \notin live THEN shadow
    ELSE LET keys == { tk \in (DOMAIN shadow) \cup TableKeys :
                         IF hist[tk] = None THEN tk \in DOMAIN shadow
                         ELSE hist[tk][1] = "set" }
         IN  [tk \in keys |-> IF hist[tk] = None THEN shadow[tk] ELSE hist[tk][2]]

\* the first num_item_limit visible keys of the table within [key_start,
\* key_end], ascending, as the caller stored them, with their visible values
VisibleScan(tx, table_name, key_start, key_end, num_item_limit) ==
    LET vis == VisibleTo(tx)
        inrange == { k \in KeysOf(DOMAIN vis, table_name) :
                       LexLE(key_start, k) /\ LexLE(k, key_end) }
        ordered == SortedSeq(inrange)
    IN  Take([i \in 1..Len(ordered) |->
                <<ordered[i], vis[make_table_key(table_name, ordered[i])]>>],
             num_item_limit)

\* C13: a scan that succeeds, one-shot or by the live transaction, returns
\* exactly the first min(limit, n) of the n visible keys k of the table with
\* start <= k <= end, in ascending order, each with its visible value and
\* under the key as the caller stored it.
C13_ScanReturnsRange ==
    (ret.op = "scan" /\ ret.err = SUCCESS /\ (ret.tx = 0 \/ ret.tx \in live))
        => ret.res = VisibleScan(ret.tx, T1, ret.key, ret.val, ret.out)

\* the caller's key of a reported key, whether reported bare or as a table_key
CallerKey(k) == IF \E i \in 1..Len(k) : k[i] = NUL THEN SplitKey(k) ELSE k

\* C14: a scan the live transaction T makes reflects T's pending changes: the
\* keys T deleted are left out, the keys T set come with T's buffered value,
\* and the keys only T's write-set holds are returned at their sorted place.
\* The keys are compared as the caller's keys, in whichever form the engine
\* reports them.
C14_ScanSeesPendingChanges ==
    (ret.op = "scan" /\ ret.err = SUCCESS /\ ret.tx \in live)
        => [i \in 1..Len(ret.res) |-> <<CallerKey(ret.res[i][1]), ret.res[i][2]>>]
             = VisibleScan(ret.tx, T1, ret.key, ret.val, ret.out)

\* C15: a scan of a table created with partition method "hash" is rejected
\* with an error and returns no results, with tx_id 0 and with a live
\* transaction id alike; a scan of a table created with "range" is not
\* rejected for its partitioning.  Checked on every scan that directly
\* follows the successful create_table of the table it names.
C15_HashTablesRejectScan ==
    [][ ( /\ ret.op = "create" /\ ret.err = SUCCESS /\ ret.key = T1
          /\ ret'.op = "scan"
          /\ \/ ret'.tx = 0
             \/ ret'.tx \in live
             \/ ret'.tx \in DOMAIN mgr.transactions )
        => IF ret.val = <<"hash">>
           THEN ret'.err # SUCCESS /\ ret'.res = << >>
           ELSE ret'.err # NOT_RANGE_PARTITIONED
      ]_vars

\* C16: a get, set, del or scan that names a table which was never created
\* fails with TABLE_NOT_FOUND and changes nothing: not the table data, not
\* the registry, not the write-set or the delete-set.
C16_UnknownTableRejected ==
    [][ (ret'.op \in {"get", "set", "del", "scan"} /\ T1 \notin DOMAIN table_to_id)
        => /\ ret'.err = TABLE_NOT_FOUND
           /\ UNCHANGED <<table_data, table_to_id, next_table_id, write_set, delete_set>>
      ]_vars

RECURSIVE StateBefore(_, _, _, _)
StateBefore(s, tx_id, batch_ops, i) ==
    IF i = 1 THEN s
    ELSE ExecuteOp(StateBefore(s, tx_id, batch_ops, i - 1), tx_id, batch_ops[i - 1]).s

\* C18: batch_execute returns one result per op, in op order; result i is the
\* error code (and for a get that succeeds the value) that op i returns when
\* it is called on its own after the ops before it; every op is attempted, so
\* the engine ends in the state all the ops leave; the call returns SUCCESS
\* iff every result is SUCCESS and BATCH_NOT_FULLY_SUCCESS otherwise.
C18_BatchExecute ==
    [][ ret'.op = "batch" =>
          LET ops == ret'.key
              res == ret'.res
              n == Len(ops)
          IN  /\ Len(res) = n
              /\ \A i \in 1..n :
                    LET o == ExecuteOp(StateBefore(SimpleState, ret'.tx, ops, i),
                                       ret'.tx, ops[i])
                    IN  /\ res[i].error = o.r.err
                        /\ (ops[i].op = OP_GET /\ o.r.err = SUCCESS) => res[i].value = o.r.val
              /\ SimpleState' = StateBefore(SimpleState, ret'.tx, ops, n + 1)
              /\ ret'.err = IF \A i \in 1..n : res[i].error = SUCCESS
                            THEN SUCCESS ELSE BATCH_NOT_FULLY_SUCCESS
      ]_vars

\* a batch by the live transaction whose first op failed and whose second,
\* a set, succeeded and is in the write-set
C18_Witness ==
    /\ ret.op = "batch" /\ ret.tx \in live /\ ret.err = BATCH_NOT_FULLY_SUCCESS
    /\ Len(ret.key) = 2 /\ Len(ret.res) = 2
    /\ ret.res[1].error # SUCCESS
    /\ ret.key[2].op = OP_SET /\ ret.res[2].error = SUCCESS
    /\ make_table_key(T1, ret.key[2].key) \in DOMAIN write_set

Ascending(columns) ==
    \A i \in 1..Len(columns), j \in 1..Len(columns) :
        i < j => LexLE(columns[i].column, columns[j].column)
\* ascending and no column twice
StrictlyAscending(columns) ==
    \A i \in 1..Len(columns), j \in 1..Len(columns) :
        i < j => LexLT(columns[i].column, columns[j].column)

\* a column list as a reference map column -> value, and back in column order
AsMap(columns) ==
    [c \in { columns[i].column : i \in 1..Len(columns) } |->
        (CHOOSE cv \in { columns[i] : i \in 1..Len(columns) } : cv.column = c).value]
RECURSIVE RefSetAll(_, _)
RefSetAll(m, columns) ==
    IF columns = << >> THEN m
    ELSE RefSetAll(Put(m, Head(columns).column, Head(columns).value), Tail(columns))
RefPairs(m) ==
    LET ordered == SortedSeq(DOMAIN m)
    IN  [i \in 1..Len(ordered) |-> [column |-> ordered[i], value |-> m[ordered[i]]]]

AdapterOps == { "set_column", "get_column", "delete_column", "get_all_columns",
                "set_columns", "delete_key" }

\* C23: every call of set-column, get-column, delete-column,
\* get-all-columns, set-columns and delete-key, made with the same arguments
\* on a serialized-blob store and on a composite-key store that have seen
\* the same calls, gives the same outcome and the same value or column list
C23_LayoutsAgree ==
    aret.op \in AdapterOps => aret.A = aret.B

\* C24: a non-empty list of pairs with distinct ascending columns is
\* serialized, and deserializing the frame gives the list back unchanged
C24_RoundTrip ==
    [][ (aret.op = "serialize_columns" /\ aret.columns # << >>
           /\ StrictlyAscending(aret.columns))
        => /\ aret.A.res = "true"
           /\ (aret'.op = "deserialize_columns" /\ aret'.value = aret.A.value)
                => (aret'.A.res = "true" /\ aret'.A.columns = aret.columns) ]_vars

\* the frame of [("\0", ""), ("\x1f\0", "\xff\1")] has been read back
C24_Witness ==
    /\ aret.op = "deserialize_columns"
    /\ aret.A.res = "true"
    /\ aret.A.columns = << [column |-> <<0>>, value |-> << >>],
                           [column |-> <<KEY_COLUMN_SEPARATOR, 0>>, value |-> <<255, 1>>] >>
    /\ aret.value = <<2, 0, 0, 0>> \o <<1, 0, 0, 0>> \o <<0>> \o <<0, 0, 0, 0>>
                      \o <<2, 0, 0, 0>> \o <<KEY_COLUMN_SEPARATOR, 0>>
                      \o <<2, 0, 0, 0>> \o <<255, 1>>

StoreOf(g) == IF g THEN storeB ELSE storeA

C27_CompositeScanExact ==
    aret.op \in { "get_all_columns", "get_all_columns_inmemory" }
    => /\ aret.B.res = "true"
       /\ aret.B.columns = RefPairs(RefColumns(aret.key))

\* C28: under the serialized layout every value stored under a key is
\* the frame of N >= 1 pairs with strictly ascending columns, and a
\* delete-column that removes the last column of a key leaves no engine
\* entry for the key
C28_FramesWellFormed ==
    /\ [](\A k \in DOMAIN storeA :
            LET pairs == DecodedPairs(storeA[k])
            IN  /\ storeA[k] = RawFrame(pairs)
                /\ Len(pairs) >= 1
                /\ StrictlyAscending(pairs))
    /\ [][ (/\ aret'.op = "delete_column" /\ aret'.A.res = "true"
            /\ aret'.key \in DOMAIN storeA
            /\ Len(DecodedPairs(storeA[aret'.key])) = 1)
           => aret'.key \notin DOMAIN storeA' ]_vars

\* delete-column has just removed the only column of "a", which has no
\* entry any more, while "a " still holds a frame of two columns
C28_Witness ==
    /\ aret.op = "delete_column" /\ aret.key = K1 /\ aret.A.res = "true"
    /\ K1 \notin DOMAIN storeA
    /\ (K1 \o <<KEY_COLUMN_SEPARATOR + 1>>) \in DOMAIN storeA
    /\ Len(DecodedPairs(storeA[K1 \o <<KEY_COLUMN_SEPARATOR + 1>>])) = 2

\* C29: deserialize_columns raises an error, and returns no list,
\* for every frame whose decoded columns are not in ascending order;
\* serialize_columns raises an error, and returns no frame, for the empty
\* list and for a list that is not in ascending order
C29_UnsortedRejected ==
    /\ (aret.op = "deserialize_columns" /\ ~Ascending(DecodedPairs(aret.value)))
         => (aret.A.res = "throws" /\ aret.A.columns = << >>)
    /\ (aret.op = "serialize_columns" /\ (aret.columns = << >> \/ ~Ascending(aret.columns)))
         => (aret.A.res = "throws" /\ aret.A.value = << >>)

\* a frame holding "\xff" before "\0" has been given to deserialize_columns
C29_Witness ==
    /\ aret.op = "deserialize_columns"
    /\ Len(DecodedPairs(aret.value)) = 2
    /\ DecodedPairs(aret.value)[1].column = <<255>>
    /\ DecodedPairs(aret.value)[2].column = <<0>>
    /\ aret.A.res = "throws"

\* C30: called with an empty column name, set-column, get-column and
\* delete-column are rejected by the composite-key layout and accepted by
\* the serialized layout: set-column(k, "", v) succeeds there and a
\* get-column(k, "") that follows returns v
C30_EmptyColumnName ==
    [][ (aret'.op \in { "set_column", "get_column", "delete_column" }
           /\ aret'.key # << >> /\ aret'.column = << >>)
        => /\ aret'.B.res # "true"
           /\ aret'.op = "set_column" => aret'.A.res = "true"
           /\ (aret'.op = "get_column" /\ aret.op = "set_column"
                 /\ aret.key = aret'.key /\ aret.column = << >>)
                => (aret'.A.res = "true" /\ aret'.A.value = aret.value) ]_vars
\* ------------------------------------------------- C31
\* the adapter operations that take a key
KeyOps == { "set_column", "get_column", "delete_column", "get_all_columns",
            "set_columns", "delete_key" }

\* C31: every adapter operation that takes a key rejects an empty key in
\* both layouts (it does not return normally), and the call changes no
\* stored data of either layout.
C31_EmptyKeyRejected ==
    [][ (aret'.op \in KeyOps /\ aret'.key = << >>)
            => /\ aret'.A.res # "true"
               /\ aret'.B.res # "true"
               /\ storeA' = storeA
               /\ storeB' = storeB ]_vars

\* ------------------------------------------------- the composite keys alone
\* the strings "", "a", "b", "ab", "ba", "\x1f", "a\x1f", "\x1fa", "\x20" and "a\x1fb"
CompositeStrings ==
    { << >>, <<1>>, <<2>>, <<1, 2>>, <<2, 1>>, <<KEY_COLUMN_SEPARATOR>>,
      <<1, KEY_COLUMN_SEPARATOR>>, <<KEY_COLUMN_SEPARATOR, 1>>,
      <<KEY_COLUMN_SEPARATOR + 1>>, <<1, KEY_COLUMN_SEPARATOR, 2>> }

MakeCompositeKey ==
    \E key \in CompositeStrings, column \in CompositeStrings :
        LET r == make_composite_key(key, column)
            o == Out(<< >>, IF r.ok THEN "true" ELSE "throws", r.key, << >>)
        IN  /\ UNCHANGED <<storeA, storeB, reference>>
            /\ ACall("make_composite_key", key, column, << >>, << >>, o, o)

\* the composite key make_composite_key has just returned, when it returned one
LastComposite ==
    IF aret.op = "make_composite_key" /\ aret.A.res = "true" THEN { aret.A.value } ELSE {}

\* the pair comes back as value (the key) and columns (the column)
SplitCompositeKey ==
    \E composite_key \in CompositeStrings \cup LastComposite :
        LET r == split_composite_key(composite_key)
            o == Out(<< >>, IF r.ok THEN "true" ELSE "throws", r.key,
                     IF r.ok THEN <<ColumnValue(r.column, << >>)>> ELSE << >>)
        IN  /\ UNCHANGED <<storeA, storeB, reference>>
            /\ ACall("split_composite_key", << >>, << >>, composite_key, << >>, o, o)

NextComposite ==
    \/ MakeCompositeKey
    \/ SplitCompositeKey

SpecComposite == InitSimple /\ [][NextComposite]_vars

\* ------------------------------------------------- C32
\* a key or column make_composite_key has to refuse
Refused(s) == s = << >> \/ \E i \in 1..Len(s) : s[i] = KEY_COLUMN_SEPARATOR

GET_COLUMN == "GET_COLUMN"
SET_COLUMN == "SET_COLUMN"
DELETE_COLUMN == "DELETE_COLUMN"

JanusGraphBatchOp(type, key, column, value) ==
    [type |-> type, key |-> key, column |-> column, value |-> value]

JanusGraphBatchResult(success, value) == [success |-> success, value |-> value]

\* the message batch_execute leaves in error_msg for the serialized layout
NOT_SUPPORTED == <<"Batch operations not yet fully supported for serialized column method">>

RECURSIVE kvt_batch_loop(_, _, _, _)
\* kvt_batch_execute on the engine under the adapter, one-shot: each op in
\* turn, every result kept
kvt_batch_loop(store, kvt_ops, kvt_results, all_success) ==
    IF kvt_ops = << >>
    THEN [s |-> store, results |-> kvt_results,
          err |-> IF all_success THEN SUCCESS ELSE BATCH_NOT_FULLY_SUCCESS]
    ELSE LET op == Head(kvt_ops)
             o == CASE op.op = OP_GET ->
                         LET got == kvt_get(store, op.key)
                         IN  [s |-> store, err |-> got.err, value |-> got.value]
                    [] op.op = OP_SET ->
                         LET w == kvt_set(store, op.key, op.value)
                         IN  [s |-> w.s, err |-> w.err, value |-> NoVal]
                    [] op.op = OP_DEL ->
                         LET d == kvt_del(store, op.key)
                         IN  [s |-> d.s, err |-> d.err, value |-> NoVal]
                    [] OTHER -> [s |-> store, err |-> UNKNOWN_ERROR, value |-> NoVal]
         IN  kvt_batch_loop(o.s, Tail(kvt_ops),
                            Append(kvt_results, KVTOpResult(o.err, o.value)),
                            all_success /\ o.err = SUCCESS)

kvt_batch_execute(store, kvt_ops) == kvt_batch_loop(store, kvt_ops, << >>, TRUE)

RECURSIVE ConvertOps(_, _, _)
\* the first loop of batch_execute: res is "ok" when it ran to its end,
\* "false" when it returned false, "throws" when make_composite_key threw
ConvertOps(g, jg_ops, kvt_ops) ==
    IF jg_ops = << >> THEN [res |-> "ok", ops |-> kvt_ops]
    ELSE IF ~g THEN [res |-> "false", ops |-> kvt_ops]
    ELSE LET jg_op == Head(jg_ops)
             composite_key == make_composite_key(jg_op.key, jg_op.column)
             kvt_op == KVTOp(CASE jg_op.type = GET_COLUMN -> OP_GET
                               [] jg_op.type = SET_COLUMN -> OP_SET
                               [] jg_op.type = DELETE_COLUMN -> OP_DEL,
                             T1, composite_key.key,
                             IF jg_op.type = SET_COLUMN THEN jg_op.value ELSE NoVal)
         IN  IF ~composite_key.ok THEN [res |-> "throws", ops |-> kvt_ops]
             ELSE ConvertOps(g, Tail(jg_ops), Append(kvt_ops, kvt_op))

\* value is error_msg, columns is jg_results, engine tells whether
\* kvt_batch_execute was called
adapter_batch_execute(g, store, jg_ops) ==
    LET conv == ConvertOps(g, jg_ops, << >>)
    IN  IF conv.res = "false"
        THEN [s |-> store, res |-> "false", value |-> NOT_SUPPORTED, columns |-> << >>,
              engine |-> FALSE]
        ELSE IF conv.res = "throws"
        THEN [s |-> store, res |-> "throws", value |-> << >>, columns |-> << >>,
              engine |-> FALSE]
        ELSE LET b == kvt_batch_execute(store, conv.ops)
                 jg_results ==
                    [i \in 1..Len(b.results) |->
                        JanusGraphBatchResult(
                            b.results[i].error = SUCCESS,
                            IF jg_ops[i].type = GET_COLUMN /\ b.results[i].error = SUCCESS
                            THEN b.results[i].value ELSE NoVal)]
             IN  [s |-> b.s,
                  res |-> Bool(b.err = SUCCESS \/ b.err = BATCH_NOT_FULLY_SUCCESS),
                  value |-> << >>, columns |-> jg_results, engine |-> TRUE]

\* the ops of the batches: get, set and delete of the columns "c" and "d" of
\* "a", and a set with an empty column name
JGOps ==
    { JanusGraphBatchOp(GET_COLUMN, K1, c, NoVal) : c \in { <<1>>, <<2>> } }
      \cup { JanusGraphBatchOp(SET_COLUMN, K1, c, <<7>>) : c \in { <<1>>, <<2>> } }
      \cup { JanusGraphBatchOp(DELETE_COLUMN, K1, c, NoVal) : c \in { <<1>>, <<2>> } }
      \cup { JanusGraphBatchOp(SET_COLUMN, K1, << >>, <<7>>) }

\* the sizes of the batches: empty, one op, two ops
JGBatchSizes == { 0, 1, 2 }

JGBatches == UNION { [1..n -> JGOps] : n \in JGBatchSizes }

\* whether each run handed the batch to the engine comes back in value of
\* the record kept
AdapterBatchExecute ==
    \E jg_ops \in JGBatches :
        LET a == adapter_batch_execute(FALSE, storeA, jg_ops)
            b == adapter_batch_execute(TRUE, storeB, jg_ops)
        IN  /\ storeA' = a.s /\ storeB' = b.s
            /\ UNCHANGED reference
            /\ aret' = [op |-> "batch_execute", key |-> << >>, column |-> << >>,
                        value |-> <<a.engine, b.engine>>, columns |-> jg_ops,
                        A |-> Result(a), B |-> Result(b)]
            /\ UNCHANGED <<simple_vars, mgr, trace, ret, thread_vars, caller_vars>>

\* set_column of the columns the batches are about
SetBatchColumn == SetColumnOf({ K1 }, { <<1>>, <<2>> }, { <<7>> })

NextAdapterBatch ==
    \/ SetBatchColumn
    \/ AdapterBatchExecute

SpecAdapterBatch == InitSimple /\ [][NextAdapterBatch]_vars

\* ------------------------------------------------- C33
\* C33: with the serialized layout batch_execute returns false and leaves
\* its message in error_msg for every list of ops, hands nothing to the
\* engine and changes no stored data.
C33_SerializedBatchRefused ==
    [][ aret'.op = "batch_execute"
            => /\ aret'.A.res = "false"
               /\ aret'.A.value = NOT_SUPPORTED
               /\ aret'.value[1] = FALSE
               /\ storeA' = storeA ]_vars

\* ------------------------------------------------- the adapter on KVTManagerWrapperSimple
\* set_column and delete_column with kvt_get / kvt_set / kvt_del answered by
\* KVTManagerWrapperSimple, inside a transaction or one-shot; the layout is
\* the one g_use_composite_key_method names. Every call maps the engine
\* state s to the new state and "true", "false" or "throws"

\* the serialized branch of get_all_columns
serialized_columns(s, tx_id, table_name, key) ==
    LET got == Simple_get(s, tx_id, table_name, key)
    IN  IF got.r.err = SUCCESS
        THEN deserialize_columns(got.r.val)
        ELSE [ok |-> TRUE, columns |-> << >>]

set_column_inmemory(g, s, tx_id, table_name, key, column, value) ==
    IF key = << >> \/ column = << >>
    THEN [s |-> s, res |-> "false"]
    ELSE IF g
    THEN LET composite_key == make_composite_key(key, column)
         IN  IF ~composite_key.ok
             THEN [s |-> s, res |-> "throws"]
             ELSE LET w == Simple_set(s, tx_id, table_name, composite_key.key, value)
                  IN  [s |-> w.s, res |-> Bool(w.r.err = SUCCESS)]
    ELSE LET existing == serialized_columns(s, tx_id, table_name, key)
         IN  IF ~existing.ok
             THEN [s |-> s, res |-> "throws"]
             ELSE LET cols == existing.columns
                      it == lower_bound(cols, column)
                      columns ==
                        IF cols = << >> THEN <<ColumnValue(column, value)>>
                        ELSE IF it <= Len(cols) /\ cols[it].column = column
                        THEN [cols EXCEPT ![it].value = value]
                        ELSE InsertAt(cols, it, ColumnValue(column, value))
                      serialized == serialize_columns(columns)
                  IN  IF (cols # << >> /\ ~is_sorted(cols)) \/ ~serialized.ok
                      THEN [s |-> s, res |-> "throws"]
                      ELSE LET w == Simple_set(s, tx_id, table_name, key, serialized.data)
                           IN  [s |-> w.s, res |-> Bool(w.r.err = SUCCESS)]

delete_column_inmemory(g, s, tx_id, table_name, key, column) ==
    IF key = << >> \/ column = << >>
    THEN [s |-> s, res |-> "false"]
    ELSE IF g
    THEN LET composite_key == make_composite_key(key, column)
         IN  IF ~composite_key.ok
             THEN [s |-> s, res |-> "throws"]
             ELSE LET d == Simple_del(s, tx_id, table_name, composite_key.key)
                  IN  [s |-> d.s, res |-> Bool(d.r.err = SUCCESS)]
    ELSE LET existing == serialized_columns(s, tx_id, table_name, key)
         IN  IF ~existing.ok \/ ~is_sorted(existing.columns)
             THEN [s |-> s, res |-> "throws"]
             ELSE LET cols == existing.columns
                      it == lower_bound(cols, column)
                  IN  IF it > Len(cols) \/ cols[it].column # column
                      THEN [s |-> s, res |-> "false"]
                      ELSE LET columns == EraseAt(cols, it)
                               serialized == serialize_columns(columns)
                               d == Simple_del(s, tx_id, table_name, key)
                               w == Simple_set(s, tx_id, table_name, key, serialized.data)
                           IN  IF columns = << >>
                               THEN [s |-> d.s, res |-> Bool(d.r.err = SUCCESS)]
                               ELSE IF ~serialized.ok
                               THEN [s |-> s, res |-> "throws"]
                               ELSE [s |-> w.s, res |-> Bool(w.r.err = SUCCESS)]

\* the columns "c" and "d" of the key "a"
InmemoryColumns == { <<1>>, <<2>> }

InitInmemory ==
    /\ InitEngine
    /\ InitStores
    /\ g_use_composite_key_method \in BOOLEAN

\* ret keeps the call: val is the column, err what the call returned
SetColumnInmemory ==
    \E tx_id \in TxArgs, column \in InmemoryColumns :
        LET o == set_column_inmemory(g_use_composite_key_method, SimpleState,
                                     tx_id, T1, K1, column, <<7>>)
        IN  /\ SetSimple(o.s)
            /\ ret' = Ret("set_column", tx_id, K1, column, o.res, 0, << >>)
            /\ UNCHANGED <<hist, shadow, live>>

DeleteColumnInmemory ==
    \E tx_id \in TxArgs, column \in InmemoryColumns :
        LET o == delete_column_inmemory(g_use_composite_key_method, SimpleState,
                                        tx_id, T1, K1, column)
        IN  /\ SetSimple(o.s)
            /\ ret' = Ret("delete_column", tx_id, K1, column, o.res, 0, << >>)
            /\ UNCHANGED <<hist, shadow, live>>

NextInmemory ==
    \/ StartTransaction
    \/ CommitTransaction
    \/ RollbackTransaction
    \/ SetColumnInmemory
    \/ DeleteColumnInmemory

SpecInmemory == InitInmemory /\ [][NextInmemory]_vars

\* ------------------------------------------------- C34
\* whether the caller tx_id sees the column of the key in state s
HasColumn(s, tx_id, key, column) ==
    IF g_use_composite_key_method
    THEN Simple_get(s, tx_id, T1, make_composite_key(key, column).key).r.err = SUCCESS
    ELSE \E i \in 1..Len(serialized_columns(s, tx_id, T1, key).columns) :
            serialized_columns(s, tx_id, T1, key).columns[i].column = column

\* C34: delete_column of a column the key does not have returns false in
\* either layout, one-shot or inside a transaction, and leaves the table
\* as it was.
C34_DeleteAbsentColumnFails ==
    [][ (ret'.op = "delete_column" /\ ~HasColumn(SimpleState, ret'.tx, ret'.key, ret'.val))
            => /\ ret'.err = "false"
               /\ table_data' = table_data ]_vars

\* ------------------------------------------------- adapter calls of two threads
\* one-shot calls (tx_id = 0) on one table in the layout
\* g_use_composite_key_method names. The adapter holds no lock of its own:
\* every kvt_get / kvt_set / kvt_scan is one step, atomic under the engine's
\* lock, and the steps of two callers interleave. local[t] keeps what the
\* call of thread t has read.
Store == IF g_use_composite_key_method THEN storeB ELSE storeA

SetStore(s) ==
    IF g_use_composite_key_method
    THEN storeB' = s /\ UNCHANGED storeA
    ELSE storeA' = s /\ UNCHANGED storeB

InitRace ==
    /\ InitEngine
    /\ InitStores
    /\ g_use_composite_key_method \in BOOLEAN

\* the call of thread t has returned o
Return(t, op, key, column, value, columns, o) ==
    /\ local' = [local EXCEPT ![t] = NoCall]
    /\ aret' = [op |-> op, key |-> key, column |-> column, value |-> value,
                columns |-> columns, A |-> Result(o), B |-> Result(o)]
    /\ UNCHANGED <<simple_vars, mgr, trace, ret, thread_vars, g_use_composite_key_method>>

\* the call of thread t goes on with l
GoOn(t, l) ==
    /\ local' = [local EXCEPT ![t] = l]
    /\ UNCHANGED <<aret, simple_vars, mgr, trace, ret, thread_vars,
                   g_use_composite_key_method>>

\* the columns "c" and "d", the value "v"
RaceColumns == { <<1>>, <<2>> }
RaceValue == <<7>>

\* set_column up to its first engine call: the whole call in the composite
\* layout, the kvt_get of get_all_columns in the serialized one
RaceSetColumn(t) ==
    /\ local[t] = NoCall
    /\ \E column \in RaceColumns :
        IF g_use_composite_key_method
        THEN LET o == set_column(TRUE, Store, K1, column, RaceValue)
             IN  /\ SetStore(o.s)
                 /\ reference' = IF o.res = "true" THEN RefPut(K1, column, RaceValue)
                                 ELSE reference
                 /\ Return(t, "set_column", K1, column, RaceValue, << >>, o)
        ELSE /\ UNCHANGED <<storeA, storeB, reference>>
             /\ GoOn(t, [op |-> "set_column", column |-> column,
                         existing |-> get_all_columns(FALSE, Store, K1)])

\* set_column of the serialized layout from get_all_columns on: the kvt_set
RaceStoreColumn(t) ==
    /\ local[t].op = "set_column"
    /\ LET o == store_column(Store, K1, local[t].column, RaceValue, local[t].existing)
       IN  /\ SetStore(o.s)
           /\ reference' = IF o.res = "true" THEN RefPut(K1, local[t].column, RaceValue)
                           ELSE reference
           /\ Return(t, "set_column", K1, local[t].column, RaceValue, << >>, o)

RaceGetAllColumns(t) ==
    /\ local[t] = NoCall
    /\ UNCHANGED <<storeA, storeB, reference>>
    /\ Return(t, "get_all_columns", K1, << >>, << >>, << >>,
              Returned(get_all_columns(g_use_composite_key_method, Store, K1)))

NextSetColumnRace ==
    \E t \in Threads :
        \/ RaceSetColumn(t)
        \/ RaceStoreColumn(t)
        \/ RaceGetAllColumns(t)

SpecSetColumnRace == InitRace /\ [][NextSetColumnRace]_vars

\* ------------------------------------------------- set_columns next to a reader
\* the list set_columns is called with: the columns "e" and "f"
RaceList == << ColumnValue(<<3>>, RaceValue), ColumnValue(<<4>>, RaceValue) >>

\* set_columns up to its first engine call: the first kvt_set of the loop
\* in the composite layout, the kvt_get of get_all_columns in the serialized one
RaceSetColumns(t) ==
    /\ local[t] = NoCall
    /\ UNCHANGED reference
    /\ IF g_use_composite_key_method
       THEN LET o == SetEach(Store, K1, <<Head(RaceList)>>)
            IN  /\ SetStore(o.s)
                /\ IF o.res = "true"
                   THEN GoOn(t, [op |-> "set_columns", rest |-> Tail(RaceList)])
                   ELSE Return(t, "set_columns", K1, << >>, << >>, RaceList, o)
       ELSE /\ UNCHANGED <<storeA, storeB>>
            /\ GoOn(t, [op |-> "set_columns", rest |-> RaceList,
                        existing |-> get_all_columns(FALSE, Store, K1)])

\* the next engine call of set_columns: the kvt_set of the next column in
\* the composite layout, the kvt_set of the merged frame in the serialized one
RaceStoreColumns(t) ==
    /\ local[t].op = "set_columns"
    /\ UNCHANGED reference
    /\ IF g_use_composite_key_method
       THEN LET o == SetEach(Store, K1, <<Head(local[t].rest)>>)
            IN  /\ SetStore(o.s)
                /\ IF o.res = "true" /\ Tail(local[t].rest) # << >>
                   THEN GoOn(t, [op |-> "set_columns", rest |-> Tail(local[t].rest)])
                   ELSE Return(t, "set_columns", K1, << >>, << >>, RaceList, o)
       ELSE LET o == store_merged(Store, K1, local[t].rest, local[t].existing)
            IN  /\ SetStore(o.s)
                /\ Return(t, "set_columns", K1, << >>, << >>, RaceList, o)

NextSetColumnsRace ==
    \E t \in Threads :
        \/ RaceSetColumns(t)
        \/ RaceStoreColumns(t)
        \/ RaceGetAllColumns(t)
        \/ RaceSetColumn(t)
        \/ RaceStoreColumn(t)

SpecSetColumnsRace == InitRace /\ [][NextSetColumnsRace]_vars

\* ------------------------------------------------- C35
\* the column names of a list
ColumnsOf(columns) == { columns[i].column : i \in 1..Len(columns) }

\* C35: whatever get_all_columns returns to a caller holds either every
\* column of the list set_columns is called with or none of them, in both
\* layouts: a set_columns call is never seen half done.
C35_SetColumnsAtomic ==
    (aret.op = "get_all_columns" /\ aret.A.res = "true")
        => \/ ColumnsOf(RaceList) \subseteq ColumnsOf(aret.A.columns)
           \/ ColumnsOf(RaceList) \cap ColumnsOf(aret.A.columns) = {}

\* ------------------------------------------------- C39
\* the column names get_all_columns gives for the key now
ColumnsNow(key) ==
    LET all == get_all_columns(g_use_composite_key_method, Store, key).columns
    IN  { all[i].column : i \in 1..Len(all) }

\* C39: once the one-shot set_column calls of the threads on one key have
\* returned, every column whose set_column returned true is among the
\* columns get_all_columns gives, in the serialized layout as in the
\* composite one.
C39_NoLostUpdate ==
    (\A t \in Threads : local[t] = NoCall)
        => (DOMAIN RefColumns(K1)) \subseteq ColumnsNow(K1)

\* ------------------------------------------------- batch_execute next to another caller
\* KVTManagerWrapperInterface::batch_execute on KVTManagerWrapperSimple, called
\* by two threads. batch_execute takes no lock itself; get, set and del each
\* take global_mutex for their own duration, so each is one step and the
\* steps of the two threads interleave. local[t] keeps the ops still to run
\* and the results so far.
BatchKey == <<1>>
BatchValue == <<1>>
ThreadOps ==
    { KVTOp(OP_GET, T1, BatchKey, NoVal),
      KVTOp(OP_SET, T1, BatchKey, BatchValue),
      KVTOp(OP_DEL, T1, BatchKey, NoVal) }
\* the batches of two ops
ThreadBatches == { <<a, b>> : a \in ThreadOps, b \in ThreadOps }

thread_batch_frame ==
    UNCHANGED <<hist, shadow, live, mgr, trace, thread_vars,
                storeA, storeB, aret, reference, g_use_composite_key_method, memdb_vars>>

\* batch_execute up to its loop: batch_results.clear()
BatchCall(t) ==
    /\ local[t] = NoCall
    /\ \E batch_ops \in ThreadBatches :
        local' = [local EXCEPT ![t] = [op |-> "batch_execute", batch_ops |-> batch_ops,
                                       i |-> 1, batch_results |-> << >>,
                                       all_success |-> TRUE]]
    /\ AssignSimple(SimpleState)
    /\ UNCHANGED ret
    /\ thread_batch_frame

\* one turn of the loop, one-shot (tx_id = 0); after the last op
\* batch_execute returns
BatchOp(t) ==
    /\ local[t].op = "batch_execute"
    /\ LET l == local[t]
           o == ExecuteOp(SimpleState, 0, l.batch_ops[l.i])
           batch_results == Append(l.batch_results, ResultOf(l.batch_ops[l.i], o.r))
           all_success == l.all_success /\ o.r.err = SUCCESS
       IN  /\ AssignSimple(o.s)
           /\ IF l.i < Len(l.batch_ops)
              THEN /\ local' = [local EXCEPT ![t] = [l EXCEPT !.i = l.i + 1,
                                                              !.batch_results = batch_results,
                                                              !.all_success = all_success]]
                   /\ UNCHANGED ret
              ELSE /\ local' = [local EXCEPT ![t] = NoCall]
                   /\ ret' = Ret("batch", 0, l.batch_ops, NoVal,
                                 IF all_success THEN SUCCESS ELSE BATCH_NOT_FULLY_SUCCESS,
                                 0, batch_results)
    /\ thread_batch_frame

\* a set or a del another caller issues directly, one-shot
DirectOp(t) ==
    /\ local[t] = NoCall
    /\ \E op \in { KVTOp(OP_SET, T1, BatchKey, <<2>>), KVTOp(OP_DEL, T1, BatchKey, NoVal) } :
        LET o == ExecuteOp(SimpleState, 0, op)
        IN  /\ AssignSimple(o.s)
            /\ ret' = o.r
    /\ UNCHANGED local
    /\ thread_batch_frame

NextThreadBatch ==
    \E t \in Threads :
        \/ BatchCall(t)
        \/ BatchOp(t)
        \/ DirectOp(t)

SpecThreadBatch == InitSimple /\ [][NextThreadBatch]_vars

\* ------------------------------------------------- C37
\* thread t is between two ops of its batch
MidBatch(t) == local[t].op = "batch_execute" /\ local[t].i > 1

\* C37: while a thread is between two ops of its batch, no step of another
\* thread changes the table: the ops of a batch run as one operation under
\* the engine-wide lock.
C37_BatchAtomic ==
    [][ \A t \in Threads :
            (MidBatch(t) /\ local'[t] = local[t]) => table_data' = table_data ]_vars

\* ------------------------------------------------- cpp_memdb: the in-memory store
\* a StaticBuffer is its byte sequence, ordered as std::vector<uint8_t> is
Entry(column, value) == [column |-> column, value |-> value]

\* std::map::lower_bound on the columns in order: the place of the first
\* column not below b, Len + 1 for end()
map_lower_bound(ordered, b) ==
    CHOOSE i \in 1..(Len(ordered) + 1) :
        /\ \A j \in 1..(i - 1) : LexLT(ordered[j], b)
        /\ i = Len(ordered) + 1 \/ ~LexLT(ordered[i], b)

\* ub: the loop has stepped off data.end(); entries are then the ones
\* added up to that point
InMemoryColumnValueStore_getSlice(data, sliceStart, sliceEnd, limit) ==
    LET ordered == SortedSeq(DOMAIN data)
        start_it == map_lower_bound(ordered, sliceStart)
        end_it == map_lower_bound(ordered, sliceEnd)
        hasLimit == limit > 0
        walked == IF start_it <= end_it
                  THEN SubSeq(ordered, start_it, end_it - 1)
                  ELSE SubSeq(ordered, start_it, Len(ordered))
        cut == IF hasLimit THEN Take(walked, limit) ELSE walked
    IN  [entries |-> [i \in 1..Len(cut) |-> Entry(cut[i], data[cut[i]])],
         ub |-> start_it > end_it /\ ~(hasLimit /\ Len(walked) >= limit)]

RECURSIVE EraseEach(_, _)
\* the loop over deletions
EraseEach(data, deletions) ==
    IF deletions = << >> THEN data
    ELSE EraseEach(Erase(data, Head(deletions)), Tail(deletions))

RECURSIVE AddEach(_, _)
\* the loop over additions
AddEach(data, additions) ==
    IF additions = << >> THEN data
    ELSE AddEach(Put(data, Head(additions).column, Head(additions).value), Tail(additions))

\* mutate with the two loops in the other order
InMemoryColumnValueStore_mutate_additions_first(data, additions, deletions) ==
    EraseEach(AddEach(data, additions), deletions)

InMemoryColumnValueStore_mutate(data, additions, deletions) ==
    AddEach(EraseEach(data, deletions), additions)

InMemoryKeyColumnValueStore_getSlice(m, key, sliceStart, sliceEnd, limit) ==
    IF key \notin DOMAIN m
    THEN [entries |-> << >>, ub |-> FALSE]
    ELSE InMemoryColumnValueStore_getSlice(m[key], sliceStart, sliceEnd, limit)

InMemoryKeyColumnValueStore_mutate(m, key, additions, deletions) ==
    LET made == IF key \in DOMAIN m THEN m ELSE Put(m, key, EmptyMap)
    IN  [made EXCEPT ![key] = InMemoryColumnValueStore_mutate(made[key], additions, deletions)]

\* the keys "k" (mutated) and "n" (only read)
MemKey == <<1>>
MemKeys == { MemKey, <<2>> }
\* the columns "c", "d", "e"; slices may also end at "f"
MemColumns == { <<1>>, <<2>>, <<3>> }
SliceBounds == MemColumns \cup { <<4>> }
\* SliceQuery::limit: the default -1, 0, and two real limits
SliceLimits == { -1, 0, 1, 2 }
MemEntries == { Entry(<<1>>, <<7>>), Entry(<<1>>, <<8>>), Entry(<<2>>, <<7>>), Entry(<<3>>, <<7>>) }
MemAdditions ==
    { << >> } \cup { <<e>> : e \in MemEntries } \cup { <<e, f>> : e \in MemEntries, f \in MemEntries }
MemDeletions == { << >>, << <<1>> >>, << <<2>> >>, << <<3>> >>, << <<1>>, <<2>> >> }

memdb_frame ==
    UNCHANGED <<table_data, next_tx_id, current_tx_id, write_set, delete_set,
                hist, shadow, live, table_to_id, next_table_id,
                ret, mgr, trace, thread_vars, adapter_vars>>

Mutate ==
    \E additions \in MemAdditions, deletions \in MemDeletions :
        /\ kcv' = InMemoryKeyColumnValueStore_mutate(kcv, MemKey, additions, deletions)
        /\ mret' = [op |-> "mutate", key |-> MemKey,
                    additions |-> additions, deletions |-> deletions]
        /\ memdb_frame

\* err is UNDEFINED_BEHAVIOUR when the walk off data.end() ends the call,
\* SUCCESS when the call returns entries
GetSlice ==
    \E key \in MemKeys, sliceStart \in SliceBounds, sliceEnd \in SliceBounds,
       limit \in SliceLimits :
        LET o == InMemoryKeyColumnValueStore_getSlice(kcv, key, sliceStart, sliceEnd, limit)
            r == [op |-> "getSlice", key |-> key, sliceStart |-> sliceStart,
                  sliceEnd |-> sliceEnd, limit |-> limit,
                  entries |-> o.entries, err |-> SUCCESS]
        IN  /\ IF o.ub
               THEN mret' \in { r, [r EXCEPT !.entries = << >>, !.err = UNDEFINED_BEHAVIOUR] }
               ELSE mret' = r
            /\ UNCHANGED kcv
            /\ memdb_frame

NextMemdb ==
    \/ Mutate
    \/ GetSlice

SpecMemdb == InitSimple /\ [][NextMemdb]_vars

\* ------------------------------------------------- C36
\* the data of a key, empty when the key was never mutated
DataOf(key) == IF key \in DOMAIN kcv THEN kcv[key] ELSE EmptyMap

\* the entries with sliceStart <= column < sliceEnd in column order, cut to
\* limit when limit > 0
SliceOf(data, sliceStart, sliceEnd, limit) ==
    LET inside == SortedSeq({ c \in DOMAIN data : LexLE(sliceStart, c) /\ LexLT(c, sliceEnd) })
        all == [i \in 1..Len(inside) |-> Entry(inside[i], data[inside[i]])]
    IN  IF limit > 0 /\ Len(all) > limit THEN SubSeq(all, 1, limit) ELSE all

\* C36: getSlice returns exactly the entries whose column lies in
\* [sliceStart, sliceEnd), in ascending column order, cut to the first
\* limit entries when limit > 0, and nothing for a key never mutated.
C36_GetSliceExact ==
    mret.op = "getSlice" =>
        /\ mret.err = SUCCESS
        /\ mret.entries = SliceOf(DataOf(mret.key), mret.sliceStart, mret.sliceEnd, mret.limit)

\* ------------------------------------------------- C40
\* C40: getSlice with sliceStart above sliceEnd returns an empty list and
\* never walks off the end of the column map.
C40_InvertedSliceEmpty ==
    (mret.op = "getSlice" /\ LexLT(mret.sliceEnd, mret.sliceStart)) =>
        /\ mret.err = SUCCESS
        /\ mret.entries = << >>

\* ------------------------------------------------- C38
\* the columns of additions, and the value of the last occurrence of c
AddedColumns(additions) == { additions[i].column : i \in 1..Len(additions) }
LastAdded(additions, c) ==
    additions[CHOOSE i \in 1..Len(additions) :
                /\ additions[i].column = c
                /\ \A j \in (i + 1)..Len(additions) : additions[j].column # c].value
Deleted(deletions) == { deletions[i] : i \in 1..Len(deletions) }

\* C38: after mutate(additions, deletions) every column of additions holds
\* the value of its last occurrence there, also when it is in deletions;
\* every column of deletions that is not in additions is absent; every
\* other column is as it was.
C38_DeletionsBeforeAdditions ==
    [][ mret'.op = "mutate" =>
          \A c \in MemColumns :
            IF c \in AddedColumns(mret'.additions)
            THEN /\ c \in DOMAIN kcv'[mret'.key]
                 /\ kcv'[mret'.key][c] = LastAdded(mret'.additions, c)
            ELSE IF c \in Deleted(mret'.deletions)
            THEN c \notin DOMAIN kcv'[mret'.key]
            ELSE /\ c \in DOMAIN kcv'[mret'.key] <=> c \in DOMAIN DataOf(mret'.key)
                 /\ c \in DOMAIN DataOf(mret'.key)
                        => kcv'[mret'.key][c] = DataOf(mret'.key)[c] ]_vars

\* "c" was stored with one value, then deleted and added twice in one
\* mutate, and holds the value added last
C38_Witness ==
    /\ mret.op = "mutate"
    /\ mret.deletions = << <<1>> >>
    /\ mret.additions = << Entry(<<1>>, <<7>>), Entry(<<1>>, <<8>>) >>
    /\ kcv[MemKey][<<1>>] = <<8>>

====
